---- MODULE Spec2Model ----
(***************************************************************************)
(* A model of racon's Polisher (src/src/polisher.cpp): the overlap         *)
(* normalisation of Polisher::initialize, the window builder and the layer *)
(* assigner, and the stitching and emission of Polisher::polish.           *)
(* Indexes of the C++ code are 0-based; a TLA+ sequence is 1-based, so the *)
(* element the code calls v[i] is v[i + 1] here.                           *)
(***************************************************************************)
EXTENDS Integers, Sequences, FiniteSets, TLC

VARIABLES
    pc,                 \* the position of the run
    type_,              \* Polisher::type_ : "kC" or "kF"
    overlaps,           \* initialize: std::vector<std::unique_ptr<Overlap>> overlaps
    l,                  \* initialize: uint64_t l, the first index of the unflushed part
    parsed,             \* every overlap the parser has delivered so far, in order
    has_data,           \* initialize: the q_ids whose has_data flag was set by an overlap
    has_reverse_data,   \* initialize: the q_ids whose has_reverse_data flag is set
    lastShrink,         \* shrinkToFit called on its own: its arguments, what it left and returned
    window_length_,     \* Polisher::window_length_
    overlap_percentage_,\* Polisher::overlap_percentage_, the fraction <<num, den>>
    targets,            \* the lengths of the target sequences, sequences_[0 .. targets_size - 1]
    windows_,           \* Polisher::windows_
    targets_coverages_, \* Polisher::targets_coverages_
    assigned,           \* the t_ids of the overlaps the layer assigner has taken, in order
    cur,                \* layer assigner: overlaps[i], the overlap being walked
    bp_j,               \* layer assigner: the index j into breaking_points
    prev_window_id,     \* layer assigner: uint64_t prev_window_id
    lastCall,           \* the arguments of the latest Window::add_layer call
    lastFragment,       \* layer assigner: how the latest fragment was dealt with
    poa_outputs,        \* the consensuses the POA of this run can produce for a window
    drop_unpolished_sequences, \* polish: the parameter of that name
    thread_futures,     \* polish: the futures of the generate_consensus tasks
    wi,                 \* polish: the loop index i over thread_futures
    polished_data,      \* polish: std::string polished_data
    num_polished_windows, \* polish: uint32_t num_polished_windows
    dst,                \* polish: the sequences emitted so far
    decided,            \* the windows at which polish evaluated the emit condition
    lastStitch,         \* the latest iteration of the overlap-mode loop
    sequences_,         \* Polisher::sequences_, the sequence store
    name_to_id,         \* initialize: the map from a name and its suffix to an id
    id_to_id,           \* initialize: the map from a raw index and its suffix bit to an id
    sequences_size,     \* initialize: uint64_t sequences_size
    queries,            \* every sequence the query parser has delivered so far, in order
    diagnostic,         \* the message of the fatal error that ended the run
    thread_pool_,       \* Polisher::thread_pool_ : the identifiers of its threads
    thread_to_id_,      \* Polisher::thread_to_id_
    alignment_engines_, \* Polisher::alignment_engines_ : the number of engines
    tasks               \* polish: the generate_consensus tasks handed to the pool

normVars == <<type_, overlaps, l, parsed, has_data, has_reverse_data, lastShrink>>

cfgVars == <<window_length_, overlap_percentage_, targets>>

assignVars == <<windows_, targets_coverages_, assigned, cur, bp_j, prev_window_id, lastCall,
                lastFragment>>

polishVars == <<poa_outputs, drop_unpolished_sequences, thread_futures, wi, polished_data,
                num_polished_windows, dst, decided, lastStitch>>

loadVars == <<sequences_, name_to_id, id_to_id, sequences_size, queries>>

poolVars == <<thread_pool_, thread_to_id_, alignment_engines_, tasks>>

vars == <<pc, normVars, cfgVars, assignVars, polishVars, loadVars, diagnostic, poolVars>>

(***************************************************************************)
(* Bounds of the model.                                                    *)
(***************************************************************************)
\* the number of overlaps the parser delivers in one run
MaxOverlaps == 3
\* the greatest Overlap::length() of an input overlap
MaxOvLength == 2
\* the greatest internal id of a query (id 0 is the one target, and the id of
\* a query the store elided because it has the target's name)
MaxQueryId == 2
\* the greatest length of a target sequence
MaxTargetLen == 6
\* the greatest number of target sequences
MaxTargets == 2
\* the greatest number of overlaps the layer assigner is handed
MaxAssigned == 2
\* the greatest number of query bases one fragment spans
MaxQuerySpan == 2
\* the greatest window length of a run of the window builder alone
MaxWindowLength == 4
\* the greatest num_threads of a Polisher
MaxThreads == 2
\* the greatest size of a vector handed to shrinkToFit on its own
MaxVectorLen == 5

(***************************************************************************)
(* Unsigned 64-bit arithmetic.  TLC's integers are 32 bits wide, so the    *)
(* modulus is scaled down; every size of the model is far below it, and a  *)
(* wrapped value is, as in the code, greater than every size.              *)
(***************************************************************************)
U64 == 2 ^ 24

\* unsigned 32-bit arithmetic, scaled down in the same way
U32 == 2 ^ 16

Max(a, b) == IF a >= b THEN a ELSE b

Min(a, b) == IF a <= b THEN a ELSE b

(***************************************************************************)
(* Overlaps as the normaliser sees them.  q and t are the internal ids     *)
(* Overlap::transmute resolves, err is 1 iff error() > error_threshold_,   *)
(* ok is what is_valid() returns after transmute, tr records that          *)
(* transmute has run on the object, idx is the position in the input.      *)
(***************************************************************************)
\* a released unique_ptr (overlaps[i].reset())
Null == [idx |-> 0, q |-> 0, t |-> 0, len |-> 0, err |-> 0, ok |-> FALSE,
         strand |-> FALSE, tr |-> FALSE]

\* Polisher::error_threshold_, on the scale of the err field
error_threshold_ == 0

\* the overlaps the parser can deliver at input position n: the structurally
\* valid ones, and one that is_valid() rejects (its q names no sequence)
ParsedOverlaps(n) ==
    { [idx |-> n, q |-> q, t |-> 0, len |-> len, err |-> e, ok |-> TRUE,
       strand |-> s, tr |-> FALSE] :
         q \in 0..MaxQueryId, len \in 1..MaxOvLength, e \in 0..1, s \in BOOLEAN }
    \cup { [idx |-> n, q |-> 0 - n, t |-> 0, len |-> 1, err |-> 0, ok |-> FALSE,
            strand |-> FALSE, tr |-> FALSE] }

\* the chunks of k overlaps that continue an input of n overlaps
RECURSIVE Chunks(_, _)
Chunks(n, k) ==
    IF k = 0 THEN { <<>> }
    ELSE { <<o>> \o c : o \in ParsedOverlaps(n + 1), c \in Chunks(n + 1, k - 1) }

\* Overlap::transmute: resolves the ids (the fields q and t hold the result)
transmute(o) == [o EXCEPT !.tr = TRUE]

\* Overlap::is_valid
is_valid(o) == o.ok

(***************************************************************************)
(* shrinkToFit(src, begin): the swap-down compaction, as the loop runs.    *)
(***************************************************************************)
\* while (j < src.size() && src[j] == nullptr) ++j;
RECURSIVE SkipNulls(_, _)
SkipNulls(src, j) ==
    IF j < Len(src) /\ src[j + 1] = Null THEN SkipNulls(src, j + 1) ELSE j

\* src[i] = src[j], which leaves src[j] as it is
CopyDown(src, i, j) == [src EXCEPT ![i + 1] = src[j + 1]]

\* src[i].swap(src[j])
Swap(src, i, j) == [src EXCEPT ![i + 1] = src[j + 1], ![j + 1] = src[i + 1]]

\* the for loop of shrinkToFit from its test on; the result is i at the exit
RECURSIVE ShrinkLoop(_, _, _)
ShrinkLoop(src, i, j) ==
    IF i >= Len(src) THEN [src |-> src, i |-> i]
    ELSE IF src[i + 1] # Null THEN ShrinkLoop(src, i + 1, j)
    ELSE LET j1 == SkipNulls(src, Max(j, i))
         IN  IF j1 >= Len(src) THEN [src |-> src, i |-> i]
             ELSE IF i # j1 THEN ShrinkLoop(Swap(src, i, j1), i + 1, j1)
             ELSE ShrinkLoop(src, i + 1, j1)

\* a call that leaves the vector as it is
NoCompaction(src, begin) == [src |-> src, n |-> 0]

\* the vector after the call, and the returned num_deletions
shrinkToFit(src, begin) ==
    LET r == ShrinkLoop(src, begin, begin)
    IN  [src |-> IF r.i < Len(src) THEN SubSeq(r.src, 1, r.i) ELSE r.src,
         n   |-> (Len(src) - r.i) % U64]

(***************************************************************************)
(* The loading of the targets and of the queries in Polisher::initialize.  *)
(* A Sequence is its name, its data().size() and its quality().size();     *)
(* file and raw tell which parser delivered it ("t" or "q") and at which   *)
(* position of that file (from 0).                                         *)
(***************************************************************************)
\* the greatest number of sequences in the query file
MaxQueries == 2
\* the greatest number of overlaps in the overlap file of a run that is
\* modelled from the loading of the sequences on
MaxLoadedOverlaps == 1

\* the names a sequence can have
Names == {"a", "b", "c"}

\* the data and quality sizes a sequence can have (FASTA has no quality)
Shapes == { <<1, 0>>, <<2, 0>>, <<2, 2>> }

\* the sequences a parser can deliver at position raw of its file
Sequences(file, raw) ==
    { [name |-> nm, size |-> sh[1], qsize |-> sh[2], file |-> file, raw |-> raw] :
         nm \in Names, sh \in Shapes }

\* the chunks of k sequences that continue a file of n sequences
RECURSIVE SequenceChunks(_, _, _)
SequenceChunks(file, n, k) ==
    IF k = 0 THEN { <<>> }
    ELSE { <<sq>> \o c : sq \in Sequences(file, n), c \in SequenceChunks(file, n + 1, k - 1) }

\* an empty std::unordered_map
EmptyMap == [key \in {} |-> 0]

\* map[key] = value
Put(map, key, value) ==
    [x \in DOMAIN map \cup {key} |-> IF x = key THEN value ELSE map[x]]

\* the loop over the targets, from target i on:
\* name_to_id[name + "t"] = i; id_to_id[i << 1 | 1] = i
RECURSIVE TargetIds(_, _, _)
TargetIds(seqs, i, maps) ==
    IF i >= Len(seqs) THEN maps
    ELSE TargetIds(seqs, i + 1,
             [name_to_id |-> Put(maps.name_to_id, <<seqs[i + 1].name, "t">>, i),
              id_to_id   |-> Put(maps.id_to_id, 2 * i + 1, i)])

\* the loop over the sequences of one chunk, from index i on; st holds
\* sequences_, the two maps, sequences_size, the counter n, and whether the
\* loop ended in the fatal error for a duplicate with unequal data
RECURSIVE LoadLoop(_, _)
LoadLoop(st, i) ==
    IF i >= Len(st.sequences_) THEN st
    ELSE LET sq  == st.sequences_[i + 1]
             key == <<sq.name, "t">>
         IN  IF key \in DOMAIN st.name_to_id
             THEN LET id == st.name_to_id[key]
                  IN  IF sq.size # st.sequences_[id + 1].size
                         \/ sq.qsize # st.sequences_[id + 1].qsize
                      THEN [st EXCEPT !.failed = TRUE]
                      ELSE LoadLoop(
                             [st EXCEPT
                                !.name_to_id = Put(@, <<sq.name, "q">>, id),
                                !.id_to_id = Put(@, 2 * st.sequences_size, id),
                                !.sequences_[i + 1] = Null,
                                !.n = @ + 1,
                                !.sequences_size = @ + 1], i + 1)
             ELSE LoadLoop(
                    [st EXCEPT
                       !.name_to_id = Put(@, <<sq.name, "q">>, (i - st.n) % U64),
                       !.id_to_id = Put(@, 2 * st.sequences_size, (i - st.n) % U64),
                       !.sequences_size = @ + 1], i + 1)

\* one iteration of the while (true) of the query loading on the state st:
\* the chunk is appended, the loop runs, and the store is compacted
LoadChunk(st, chunk) ==
    LET r == LoadLoop([st EXCEPT !.sequences_ = @ \o chunk, !.n = 0],
                      Len(st.sequences_))
    IN  IF r.failed THEN r
        ELSE [r EXCEPT !.sequences_ = shrinkToFit(@, Len(st.sequences_)).src]

\* a loading that records no name and no id of a target
TargetsNotNamed(tfile) ==
    [sequences_ |-> tfile, name_to_id |-> EmptyMap, id_to_id |-> EmptyMap,
     sequences_size |-> 0, n |-> 0, failed |-> FALSE]

\* the state of the loading after the targets in tfile were parsed
TargetsLoaded(tfile) ==
    LET maps == TargetIds(tfile, 0, [name_to_id |-> EmptyMap, id_to_id |-> EmptyMap])
    IN  [sequences_ |-> tfile, name_to_id |-> maps.name_to_id,
         id_to_id |-> maps.id_to_id, sequences_size |-> 0, n |-> 0, failed |-> FALSE]

\* tparser_->parse(sequences_, -1): the whole target file; the fatal error
\* for an empty target set, else the ids of the targets
LoadTargets ==
    /\ pc = "start"
    /\ \E k \in 0..MaxTargets : \E tfile \in SequenceChunks("t", 0, k) :
          /\ sequences_' = tfile
          /\ targets' = [i \in 1..k |-> tfile[i].size]
          /\ IF k = 0
             THEN /\ pc' = "exit"
                  /\ diagnostic' = "empty target sequences set!"
                  /\ UNCHANGED <<name_to_id, id_to_id>>
             ELSE /\ pc' = "load"
                  /\ name_to_id' = TargetsLoaded(tfile).name_to_id
                  /\ id_to_id' = TargetsLoaded(tfile).id_to_id
                  /\ UNCHANGED diagnostic
    /\ UNCHANGED <<normVars, window_length_, overlap_percentage_, assignVars,
                   polishVars, sequences_size, queries, poolVars>>

\* one iteration of the query loading: sparser_->parse delivers a chunk and
\* whether more is left; a duplicate with unequal data is fatal, and so is,
\* after the last chunk, an empty query set
LoadSequences ==
    /\ pc = "load"
    /\ \E k \in 0 .. (MaxQueries - Len(queries)), status \in BOOLEAN :
          /\ status => k > 0
          /\ \E chunk \in SequenceChunks("q", Len(queries), k) :
                LET r == LoadChunk([sequences_ |-> sequences_, name_to_id |-> name_to_id,
                                    id_to_id |-> id_to_id,
                                    sequences_size |-> sequences_size,
                                    n |-> 0, failed |-> FALSE], chunk)
                IN  /\ sequences_' = r.sequences_
                    /\ name_to_id' = r.name_to_id
                    /\ id_to_id' = r.id_to_id
                    /\ sequences_size' = r.sequences_size
                    /\ queries' = queries \o chunk
                    /\ IF r.failed
                       THEN /\ pc' = "exit"
                            /\ diagnostic' = "duplicate sequence with unequal data"
                       ELSE IF status
                       THEN /\ pc' = "load"
                            /\ UNCHANGED diagnostic
                       ELSE IF r.sequences_size = 0
                       THEN /\ pc' = "exit"
                            /\ diagnostic' = "empty sequences set!"
                       ELSE /\ pc' = "parse"
                            /\ UNCHANGED diagnostic
    /\ UNCHANGED <<normVars, cfgVars, assignVars, polishVars, poolVars>>

(***************************************************************************)
(* The thread pool, the alignment engines and the tasks.                   *)
(***************************************************************************)
\* thread_pool::createThreadPool(num_threads): the identifiers of the
\* threads of the pool (the caller is thread 0)
createThreadPool(num_threads) == [i \in 1..num_threads |-> i]

\* a map that binds every thread to engine 0
ThreadsToEngineZero(ids, i, map) == [th \in { ids[k] : k \in 1..Len(ids) } |-> 0]

\* the loop of the constructor over thread_pool_->thread_identifiers(), from
\* element i of the list on: thread_to_id_[it] = id++
RECURSIVE ThreadToId(_, _, _)
ThreadToId(ids, i, map) ==
    IF i >= Len(ids) THEN map
    ELSE ThreadToId(ids, i + 1, Put(map, ids[i + 1], i))

\* the members the constructor of a Polisher with num_threads threads sets
Constructed(num_threads) ==
    /\ thread_pool_ = createThreadPool(num_threads)
    /\ thread_to_id_ = ThreadToId(createThreadPool(num_threads), 0, EmptyMap)
    /\ alignment_engines_ = num_threads

\* a task the pool has not started yet
QueuedTask == [state |-> "queued", thread |-> 0, engine |-> 0, ok |-> FALSE,
               consensus |-> <<>>]

\* a task that has returned: the thread it ran on, the engine it used, and
\* what generate_consensus returned and left as consensus
FinishedTask(thread, engine, o) ==
    [state |-> "finished", thread |-> thread, engine |-> engine, ok |-> o.ok,
     consensus |-> o.consensus]

\* a wait that returns at once
FutureReadyAtOnce(n) == TRUE

\* thread_futures[n].wait() returns: the task of window n has returned
FutureReady(n) == tasks[n + 1].state = "finished"

\* a target file with targets of the given lengths, named "a", "b"
TargetFile(tg) ==
    [i \in 1..Len(tg) |->
        [name |-> <<"a", "b", "e", "f", "g">>[i], size |-> tg[i], qsize |-> 0, file |-> "t", raw |-> i - 1]]

\* a query file of nq sequences: one named as the first target, the others
\* of names that no target has
QueryFile(tg, nq) ==
    [i \in 1..nq |->
        [name |-> <<"a", "c", "d", "h", "i", "j">>[i], size |-> IF i = 1 THEN tg[1] ELSE 1, qsize |-> 0,
         file |-> "q", raw |-> i - 1]]

\* the store and the maps once these two files are loaded
StoreOf(tg, nq) == LoadChunk(TargetsLoaded(TargetFile(tg)), QueryFile(tg, nq))

\* the loading is over and the maps were released (after the overlap parse
\* loop): the store holds the targets and one query of another name
Loaded ==
    /\ sequences_ = StoreOf(targets, 2).sequences_
    /\ name_to_id = EmptyMap
    /\ id_to_id = EmptyMap
    /\ sequences_size = 2
    /\ queries = QueryFile(targets, 2)
    /\ diagnostic = ""

\* a Polisher of one thread that has not submitted a task
SingleThread ==
    /\ Constructed(1)
    /\ tasks = <<>>

(***************************************************************************)
(* remove_invalid_overlaps(begin, end), the lambda of initialize.          *)
(***************************************************************************)
\* the inner loop over j in mode kC, for a fixed i
RECURSIVE DedupLoop(_, _, _, _)
DedupLoop(ov, i, j, end) ==
    IF j >= end THEN ov
    ELSE IF ov[j + 1] = Null THEN DedupLoop(ov, i, j + 1, end)
    ELSE IF ov[i + 1].len > ov[j + 1].len
         THEN DedupLoop([ov EXCEPT ![j + 1] = Null], i, j + 1, end)
         ELSE [ov EXCEPT ![i + 1] = Null]

\* the outer loop from index i on
RECURSIVE remove_invalid_overlaps(_, _, _, _)
remove_invalid_overlaps(ov, i, end, type) ==
    IF i >= end THEN ov
    ELSE IF ov[i + 1] = Null THEN remove_invalid_overlaps(ov, i + 1, end, type)
    ELSE IF ov[i + 1].err > error_threshold_ \/ ov[i + 1].q = ov[i + 1].t
         THEN remove_invalid_overlaps([ov EXCEPT ![i + 1] = Null], i + 1, end, type)
    ELSE IF type = "kC"
         THEN remove_invalid_overlaps(DedupLoop(ov, i, i + 1, end), i + 1, end, type)
         ELSE remove_invalid_overlaps(ov, i + 1, end, type)

(***************************************************************************)
(* The overlap parse loop of initialize, one chunk per iteration.          *)
(***************************************************************************)
\* the loop over i = l .. overlaps.size() - 1 of one chunk; c is the first
\* index of the run that is still open
RECURSIVE ScanChunk(_, _, _, _)
ScanChunk(ov, c, i, type) ==
    IF i >= Len(ov) THEN [ov |-> ov, c |-> c]
    ELSE LET o == transmute(ov[i + 1])
         IN  IF ~is_valid(o)
             THEN ScanChunk([ov EXCEPT ![i + 1] = Null], c, i + 1, type)
             ELSE LET ov1 == [ov EXCEPT ![i + 1] = o]
                      c1  == SkipNulls(ov1, c)
                  IN  IF ov1[c1 + 1].q # o.q
                      THEN ScanChunk(remove_invalid_overlaps(ov1, c1, i, type),
                                     i, i + 1, type)
                      ELSE ScanChunk(ov1, c1, i + 1, type)

\* the q_ids of the overlaps at indexes from .. to - 1 with the given strand
FlaggedIds(ov, from, to, strand) ==
    { ov[i + 1].q : i \in { k \in from .. (to - 1) :
                              k < Len(ov) /\ ov[k + 1] # Null
                              /\ ov[k + 1].strand = strand } }

\* one iteration of while (true): parse a chunk, scan it, flush at the end
\* of the input, set the flags, compact, and move l
ParseChunk(chunk, status) ==
    /\ pc = "parse"
    /\ LET ov0 == overlaps \o chunk
           s   == ScanChunk(ov0, l, l, type_)
           ov1 == IF ~status
                  THEN remove_invalid_overlaps(s.ov, s.c, Len(s.ov), type_)
                  ELSE s.ov
           c1  == IF ~status THEN Len(ov0) ELSE s.c
           sh  == shrinkToFit(ov1, l)
       IN  /\ overlaps' = sh.src
           /\ l' = (c1 - sh.n) % U64
           /\ has_data' = has_data \cup FlaggedIds(ov1, l, c1, FALSE)
           /\ has_reverse_data' = has_reverse_data \cup FlaggedIds(ov1, l, c1, TRUE)
    /\ parsed' = parsed \o chunk
    /\ pc' = IF status THEN "parse" ELSE "normalized"
    /\ UNCHANGED <<type_, lastShrink, cfgVars, loadVars, diagnostic, poolVars, assignVars,
                   polishVars>>

\* oparser_->parse(overlaps, kChunkSize): a chunk of the input and whether
\* more of it is left; only the last chunk of an input may be empty
ParseInput(max) ==
    \E k \in 0 .. (max - Len(parsed)), status \in BOOLEAN :
        /\ status => k > 0
        /\ \E chunk \in Chunks(Len(parsed), k) :
              /\ \A n \in 1..k : chunk[n].ok => chunk[n].q < Len(sequences_)
              /\ ParseChunk(chunk, status)

\* the overlap parse loop on an input of at most MaxOverlaps overlaps
Parse == ParseInput(MaxOverlaps)

\* the overlap parse loop on an input of at most MaxLoadedOverlaps overlaps
ParseLoaded == ParseInput(MaxLoadedOverlaps)

\* shrinkToFit was not called on its own
NoShrink == [made |-> FALSE, src |-> <<>>, begin |-> 0, dst |-> <<>>, n |-> 0]

\* no overlap is being walked
NoOverlap == [t_id |-> 0, qual |-> FALSE, breaking_points |-> <<>>]

\* no fragment of the overlap was dealt with yet
NoFragment == [kind |-> "none", j |-> 0]

\* no add_layer call was made yet
NoCall == [window_id |-> 0, sequence_length |-> 0, quality_length |-> 0,
           begin |-> 0, end |-> 0, made |-> FALSE]

\* no iteration of the overlap-mode loop of polish was run yet
NoStitch == [made |-> FALSE, i |-> 0, rank |-> 0, final |-> FALSE,
             consensus_l |-> <<>>, consensus_r |-> <<>>, msa |-> <<>>,
             first_match_pos |-> 0, last_match_pos |-> 0, reads |-> <<>>,
             sequence |-> <<>>]

\* the state of the locals of polish before polish is called
NotPolishing ==
    /\ drop_unpolished_sequences = FALSE
    /\ thread_futures = <<>>
    /\ wi = 0
    /\ polished_data = <<>>
    /\ num_polished_windows = 0
    /\ dst = <<>>
    /\ decided = <<>>
    /\ lastStitch = NoStitch

\* no window is polished in this run
IdlePolish ==
    /\ poa_outputs = {}
    /\ NotPolishing

\* the state of the members and locals that the overlap normalisation does
\* not touch
IdleAssign ==
    /\ window_length_ = 1
    /\ overlap_percentage_ = <<0, 1>>
    /\ targets = <<1>>
    /\ windows_ = <<>>
    /\ targets_coverages_ = <<>>
    /\ assigned = <<>>
    /\ cur = NoOverlap
    /\ bp_j = 0
    /\ prev_window_id = 0
    /\ lastCall = NoCall
    /\ lastFragment = NoFragment
    /\ IdlePolish

InitNorm ==
    /\ pc = "parse"
    /\ type_ \in {"kC", "kF"}
    /\ overlaps = <<>>
    /\ l = 0
    /\ parsed = <<>>
    /\ has_data = {}
    /\ has_reverse_data = {}
    /\ lastShrink = NoShrink
    /\ IdleAssign
    /\ LET st == StoreOf(targets, MaxQueryId + 1)
       IN  /\ sequences_ = st.sequences_
           /\ name_to_id = st.name_to_id
           /\ id_to_id = st.id_to_id
           /\ sequences_size = st.sequences_size
           /\ queries = QueryFile(targets, MaxQueryId + 1)
    /\ diagnostic = ""
    /\ SingleThread

NextNorm == Parse

\* the overlap normalisation of Polisher::initialize
SpecNorm == InitNorm /\ [][NextNorm]_vars

(***************************************************************************)
(* Claims about the normalisation.                                         *)
(***************************************************************************)
\* the overlaps of the input that is_valid() accepts and that share one q_id
\* form one contiguous run (invalid records in between belong to no run)
QIdRunsContiguous(inp) ==
    \A i, j \in 1..Len(inp) :
        (i < j /\ inp[i].ok /\ inp[j].ok /\ inp[i].q = inp[j].q)
            => \A k \in i..j : inp[k].ok => inp[k].q = inp[i].q

\* the overlap passes the three filters: structurally valid, not a self
\* overlap, error within the threshold
PassesFilters(o) == o.ok /\ o.q # o.t /\ o.err <= error_threshold_

\* the positions of the maximal run of the input that position i belongs to
RunOf(inp, i) ==
    { j \in 1..Len(inp) :
        /\ inp[j].ok /\ inp[j].q = inp[i].q
        /\ \A k \in Min(i, j) .. Max(i, j) : inp[k].ok => inp[k].q = inp[i].q }

\* the input positions of the overlaps in the list when normalisation ends
SurvivorIdx == { overlaps[k].idx : k \in 1..Len(overlaps) }

\* C1: in contig mode, for an input whose equal q_ids arrive as one
\* contiguous run and for every chunking, no two overlaps of the list that
\* normalisation leaves have the same q_id.
C1_NoDuplicateQId ==
    (pc = "normalized" /\ type_ = "kC" /\ QIdRunsContiguous(parsed))
        => \A i, j \in 1..Len(overlaps) :
               i # j => overlaps[i].q # overlaps[j].q

\* C2: for both polisher types and every chunking, every overlap of the list
\* that normalisation leaves has q_id # t_id and error <= error_threshold.
C2_SurvivorsFiltered ==
    pc = "normalized"
        => \A i \in 1..Len(overlaps) :
               overlaps[i].q # overlaps[i].t /\ overlaps[i].err <= error_threshold_

\* C3: in contig mode, of every maximal run of one q_id that holds an overlap
\* passing the three filters exactly one overlap survives, and its length is
\* the greatest among the overlaps of the run that pass the filters.
C3_LongestOfRunSurvives ==
    (pc = "normalized" /\ type_ = "kC")
        => \A i \in 1..Len(parsed) :
               PassesFilters(parsed[i])
                   => LET run  == RunOf(parsed, i)
                          kept == run \cap SurvivorIdx
                      IN  /\ Cardinality(kept) = 1
                          /\ \A s \in kept : \A j \in run :
                                 PassesFilters(parsed[j])
                                     => parsed[s].len >= parsed[j].len

(***************************************************************************)
(* The window builder and the layer assigner of Polisher::initialize.      *)
(***************************************************************************)

\* an offset that is rounded up
OffsetRoundedUp(w, p) == (w * p[1] + p[2] - 1) \div p[2]

\* uint32_t offset = window_length_ * overlap_percentage_ (the double is
\* truncated; the fractions used are exact in binary)
Offset(w, p) == (w * p[1]) \div p[2]

\* the windows of target i (of length len), ranks k, k + 1, ... from
\* position jj on: the loop for (j = 0; j < size; j += window_length_, ++k)
RECURSIVE TargetWindows(_, _, _, _, _, _)
TargetWindows(i, len, w, offset, jj, k) ==
    IF jj >= len THEN <<>>
    ELSE LET start     == IF jj > 0 THEN (jj - offset) % U32 ELSE jj
             expansion == IF jj > 0 THEN offset + offset ELSE offset
             length    == (Min((start + w + expansion) % U32, len) - start) % U32
         IN  <<[id |-> i, rank |-> k, start |-> start, backbone_length |-> length,
                layers |-> 0, consensus |-> <<>>, live |-> TRUE]>>
             \o TargetWindows(i, len, w, offset, jj + w, k + 1)

\* windows_ after the window builder, for the targets from index i on
RECURSIVE BuildWindows(_, _, _, _)
BuildWindows(tg, w, offset, i) ==
    IF i >= Len(tg) THEN <<>>
    ELSE TargetWindows(i, tg[i + 1], w, offset, 0, 0)
         \o BuildWindows(tg, w, offset, i + 1)

\* id_to_first_window_id[i]: the windows of the targets before target i
first_window_id(ws, i) == Cardinality({ n \in 1..Len(ws) : ws[n].id < i })

(***************************************************************************)
(* Breaking points (Overlap::find_breaking_points): pairs                  *)
(* <<target position, query position>>, entries 2k and 2k + 1 the start    *)
(* and the end of the fragment of the k-th window the overlap crosses.     *)
(***************************************************************************)
\* the target spans of the fragments of an overlap [tb, te) of target i:
\* its intersection with the span of each window, in rank order
RECURSIVE FragmentSpans(_, _, _, _)
FragmentSpans(ws, i, tb, te) ==
    IF ws = <<>> THEN <<>>
    ELSE LET win == Head(ws)
             lo  == Max(tb, win.start)
             hi  == Min(te, win.start + win.backbone_length)
         IN  (IF win.id = i /\ lo < hi THEN << <<lo, hi>> >> ELSE <<>>)
             \o FragmentSpans(Tail(ws), i, tb, te)

\* the breaking points of fragments with the given target spans and query
\* spans, the query positions running on from q
RECURSIVE BreakingPoints(_, _, _)
BreakingPoints(spans, qspans, q) ==
    IF spans = <<>> THEN <<>>
    ELSE << <<Head(spans)[1], q>>, <<Head(spans)[2], q + Head(qspans)>> >>
         \o BreakingPoints(Tail(spans), Tail(qspans), q + Head(qspans))

\* the sequences of n query spans
RECURSIVE QuerySpans(_)
QuerySpans(n) ==
    IF n = 0 THEN { <<>> }
    ELSE { <<a>> \o r : a \in {0, MaxQuerySpan}, r \in QuerySpans(n - 1) }

(***************************************************************************)
(* The layer assigner: the loop over the overlaps and their fragments.     *)
(***************************************************************************)
\* the fragment is skipped as too short:
\* breaking_points[j + 1].second - breaking_points[j].second < 0.02 * window_length_
TooShort(bp, jj, w) == 50 * ((bp[jj + 2][2] - bp[jj + 1][2]) % U32) < w

\* the window the fragment starts in, without any adjustment
UnadjustedWindowId(bp, jj, first, w, offset, prev) == (first + bp[jj + 1][1] \div w) % U64

\* prev_window_id_n of a fragment whose mean quality is below the threshold
LowQualityWindowId(bp, jj, first, w, offset, prev) ==
    LET bpw1 == bp[jj + 1][1] \div w
        bpw2 == bp[jj + 2][1] \div w
        id   == (first + bpw1) % U64
    IN  IF (bpw2 - bpw1) % U64 > 1 THEN (id + 1) % U64
        ELSE IF id = prev THEN (id + 1) % U64
        ELSE IF bp[jj + 1][1] < bpw1 * w + offset
                /\ (jj + 2 < Len(bp) /\ bp[jj + 1][1] = bp[jj + 3][1])
             THEN (id - 1) % U64
        ELSE id

\* the window after the one the fragment starts in, whatever the fragment
IncrementedWindowId(bp, jj, first, w, offset, prev) == (first + bp[jj + 1][1] \div w + 1) % U64

\* window_id of a fragment that is deposited
LayerWindowId(bp, jj, first, w, offset, prev) ==
    LET bpw1 == bp[jj + 1][1] \div w
        bpw2 == bp[jj + 2][1] \div w
        id   == (first + bpw1) % U64
    IN  IF (bpw2 - bpw1) % U64 > 1 THEN (id + 1) % U64
        ELSE IF id = prev THEN (id + 1) % U64
        ELSE IF bp[jj + 1][1] < bpw1 * w + offset
                /\ (jj + 2 < Len(bp) /\ bp[jj + 1][1] = bp[jj + 3][1])
             THEN (id - 1) % U64
        ELSE id

\* uint32_t window_start of the window the fragment goes to
WindowStart(window_id, first, w, offset) ==
    LET ws == (((window_id - first) % U64) * w) % U32
    IN  IF ws > 0 THEN (ws - offset) % U32 ELSE ws

\* the arguments of windows_[window_id]->add_layer(...)
AddLayerCall(bp, jj, window_id, first, w, offset, qual) ==
    LET window_start == WindowStart(window_id, first, w, offset)
        data_length  == (bp[jj + 2][2] - bp[jj + 1][2]) % U32
    IN  [window_id       |-> window_id,
         sequence_length |-> data_length,
         quality_length  |-> IF qual THEN data_length ELSE 0,
         begin           |-> (bp[jj + 1][1] - window_start) % U32,
         end             |-> (bp[jj + 2][1] - window_start - 1) % U32,
         made            |-> TRUE]

\* a loop head that leaves targets_coverages_ alone
CountNothing(coverages, t_id) == coverages

\* ++targets_coverages_[overlaps[i]->t_id()]
CountOverlap(coverages, t_id) == [coverages EXCEPT ![t_id + 1] = @ + 1]

\* the head of the loop over the overlaps: ++targets_coverages_[t_id], the
\* breaking points of overlaps[i], prev_window_id = -1
BeginOverlap ==
    /\ pc = "assign"
    /\ cur = NoOverlap
    /\ Len(assigned) < Len(overlaps)
    /\ \E t \in { overlaps[Len(assigned) + 1].t }, qual \in BOOLEAN :
       \E tb \in 0 .. (targets[t + 1] - 1) :
       \E te \in (tb + 1) .. targets[t + 1] :
          LET spans == FragmentSpans(windows_, t, tb, te)
          IN  \E qs \in QuerySpans(Len(spans)) :
                 cur' = [t_id |-> t, qual |-> qual,
                         breaking_points |-> BreakingPoints(spans, qs, 0)]
    /\ targets_coverages_' = CountOverlap(targets_coverages_, cur'.t_id)
    /\ assigned' = Append(assigned, cur'.t_id)
    /\ bp_j' = 0
    /\ prev_window_id' = (0 - 1) % U64
    /\ lastCall' = NoCall
    /\ lastFragment' = NoFragment
    /\ UNCHANGED <<pc, normVars, cfgVars, loadVars, diagnostic, poolVars, windows_, polishVars>>

\* one iteration of the loop over the fragments: the fragment is skipped as
\* too short, or skipped for its quality (low is the outcome of
\* average_quality < quality_threshold_), or added to a window as a layer
AssignFragment ==
    /\ pc = "assign"
    /\ cur # NoOverlap
    /\ bp_j < Len(cur.breaking_points)
    /\ LET bp     == cur.breaking_points
           w      == window_length_
           offset == Offset(w, overlap_percentage_)
           first  == first_window_id(windows_, cur.t_id)
       IN  IF TooShort(bp, bp_j, w)
           THEN /\ lastFragment' = [kind |-> "too short", j |-> bp_j]
                /\ UNCHANGED <<pc, prev_window_id, windows_, lastCall>>
           ELSE \E low \in BOOLEAN :
                  /\ low => cur.qual
                  /\ lastFragment' = [kind |-> IF low THEN "low quality" ELSE "layer",
                                      j |-> bp_j]
                  /\ IF low
                     THEN /\ prev_window_id' =
                                 LowQualityWindowId(bp, bp_j, first, w, offset, prev_window_id)
                          /\ UNCHANGED <<pc, windows_, lastCall>>
                     ELSE LET window_id ==
                                 LayerWindowId(bp, bp_j, first, w, offset, prev_window_id)
                          IN  /\ prev_window_id' = window_id
                              /\ lastCall' = AddLayerCall(bp, bp_j, window_id, first, w,
                                                          offset, cur.qual)
                              /\ IF window_id < Len(windows_)
                                 THEN /\ windows_' =
                                            [windows_ EXCEPT ![window_id + 1].layers = @ + 1]
                                      /\ pc' = pc
                                 ELSE \* windows_[window_id] is out of range
                                      /\ pc' = "undefined"
                                      /\ UNCHANGED windows_
    /\ bp_j' = bp_j + 2
    /\ UNCHANGED <<normVars, cfgVars, loadVars, diagnostic, poolVars, targets_coverages_,
                   assigned, cur, polishVars>>

\* the end of the loop body: overlaps[i].reset()
EndOverlap ==
    /\ pc = "assign"
    /\ cur # NoOverlap
    /\ bp_j >= Len(cur.breaking_points)
    /\ cur' = NoOverlap
    /\ bp_j' = 0
    /\ UNCHANGED <<pc, normVars, cfgVars, loadVars, diagnostic, poolVars, windows_, targets_coverages_, assigned,
                   prev_window_id, lastCall, lastFragment, polishVars>>

\* a surviving overlap of target t, the k-th of the list (of a query that
\* is none of the targets)
Survivor(k, t, n) ==
    [idx |-> k, q |-> n, t |-> t, len |-> 1, err |-> 0, ok |-> TRUE,
     strand |-> FALSE, tr |-> TRUE]

\* the lists of k surviving overlaps of n targets
RECURSIVE SurvivorLists(_, _)
SurvivorLists(k, n) ==
    IF k = 0 THEN { <<>> }
    ELSE { Append(r, Survivor(k, t, n)) :
              r \in SurvivorLists(k - 1, n), t \in 0 .. (n - 1) }

\* the state of the normalisation's other variables once it is over
IdleNorm ==
    /\ type_ = "kC"
    /\ l = 0
    /\ parsed = <<>>
    /\ has_data = {}
    /\ has_reverse_data = {}
    /\ lastShrink = NoShrink

\* the target sets of the model
RECURSIVE TargetSets(_)
TargetSets(n) ==
    IF n = 0 THEN { <<>> }
    ELSE { <<len>> \o r : len \in 1..MaxTargetLen, r \in TargetSets(n - 1) }

\* initialize after the window builder: the windows exist, no layer yet
InitAssign ==
    /\ pc = "assign"
    /\ IdleNorm
    /\ \E c \in { <<4, <<0, 1>>>>, <<4, <<1, 4>>>>, <<3, <<3, 8>>>>, <<2, <<0, 1>>>> } :
          /\ window_length_ = c[1]
          /\ overlap_percentage_ = c[2]
    /\ targets \in UNION { TargetSets(n) : n \in 1..MaxTargets }
    /\ overlaps \in UNION { SurvivorLists(k, Len(targets)) : k \in 1..MaxAssigned }
    /\ windows_ = BuildWindows(targets, window_length_,
                               Offset(window_length_, overlap_percentage_), 0)
    /\ targets_coverages_ = [i \in 1..Len(targets) |-> 0]
    /\ assigned = <<>>
    /\ cur = NoOverlap
    /\ bp_j = 0
    /\ prev_window_id = 0
    /\ lastCall = NoCall
    /\ lastFragment = NoFragment
    /\ IdlePolish
    /\ Loaded
    /\ SingleThread

NextAssign == BeginOverlap \/ AssignFragment \/ EndOverlap

\* the layer assigner of Polisher::initialize
SpecAssign == InitAssign /\ [][NextAssign]_vars

\* C4: every add_layer call of the layer assigner passes 0 <= begin <= end <
\* backbone_length of the window that receives the layer, and quality_length
\* equal to 0 or to sequence_length, in default and in overlap mode.
C4_LayerWithinBackbone ==
    lastCall.made
        => /\ lastCall.window_id < Len(windows_)
           /\ lastCall.begin <= lastCall.end
           /\ lastCall.end < windows_[lastCall.window_id + 1].backbone_length
           /\ lastCall.quality_length \in {0, lastCall.sequence_length}

(***************************************************************************)
(* Polisher::polish: the consensus of every window, the stitching of the   *)
(* windows of a target and the emission of the polished sequences.  A      *)
(* string is a sequence of one-character strings.                          *)
(***************************************************************************)
\* the total length of the targets of a run that is polished
TotalTargetLen == 5
\* the greatest number of windows of the target of a stitching run
MaxStitchWindows == 3
\* the greatest total length of two strings whose gapped alignments are all
\* enumerated; longer pairs get the ungapped alignments only
MaxGappedMSA == 6

Bases == <<"A", "C", "G", "T">>

\* the base at position k of target t: target 0 reads ACGTACGT...
TargetBase(t, k) == Bases[((t + k) % 4) + 1]

\* the variant of the backbone that starts at the first base of the target
BackboneFromZero(win) ==
    [k \in 1..win.backbone_length |-> TargetBase(win.id, k - 1)]

\* the backbone of a window: the slice data()[start .. start + length) of
\* its target that createWindow is handed
Backbone(win) ==
    [k \in 1..win.backbone_length |-> TargetBase(win.id, win.start + k - 1)]

\* Window::generate_consensus: its return value and the consensus it leaves.
\* A window without layers is not polished and keeps its backbone; a window
\* with layers is polished to one of the outputs of the POA, or fails
generate_consensus(win, outs) ==
    { [ok |-> FALSE, consensus |-> Backbone(win)] }
        \cup IF win.layers > 0
             THEN { [ok |-> TRUE, consensus |-> c] : c \in outs }
             ELSE {}

\* std::string::substr(pos, n), for pos <= size()
substr(str, pos, n) == SubSeq(str, pos + 1, Min(Len(str), pos + n))

\* std::reverse
Reverse(str) == [k \in 1..Len(str) |-> str[Len(str) + 1 - k]]

\* double total_overlap = 2 * overlap_percentage_, as a fraction
total_overlap(p) == <<2 * p[1], p[2]>>

\* uint32_t len = consensus.size() * total_overlap: the double is truncated
TimesOverlap(n, to) == (n * to[1]) \div to[2]

\* consensus.size() - total_overlap * consensus.size() as a size_t: the
\* difference is computed in double and then truncated
MinusOverlap(n, to) == (n * to[2] - n * to[1]) \div to[2]

(***************************************************************************)
(* The two rows of the alignment of the tail of the left consensus (row 1  *)
(* here, msa[0] in the code) and the head of the right one (spoa).         *)
(***************************************************************************)
Gaps(n) == [k \in 1..n |-> "-"]

\* every gapped alignment of a and b
RECURSIVE Alignments(_, _)
Alignments(a, b) ==
    IF a = <<>> /\ b = <<>> THEN { << <<>>, <<>> >> }
    ELSE (IF a # <<>> /\ b # <<>>
          THEN { << <<a[1]>> \o m[1], <<b[1]>> \o m[2] >> :
                    m \in Alignments(Tail(a), Tail(b)) }
          ELSE {})
         \cup (IF a # <<>>
               THEN { << <<a[1]>> \o m[1], <<"-">> \o m[2] >> :
                         m \in Alignments(Tail(a), b) }
               ELSE {})
         \cup (IF b # <<>>
               THEN { << <<"-">> \o m[1], <<b[1]>> \o m[2] >> :
                         m \in Alignments(a, Tail(b)) }
               ELSE {})

\* the ungapped alignment in which b starts sh columns after a (sh >= 0)
Shifted(a, b, sh) ==
    << a \o Gaps(Max(0, sh + Len(b) - Len(a))),
       Gaps(sh) \o b \o Gaps(Max(0, Len(a) - sh - Len(b))) >>

\* the alignments the model lets spoa return for a and b
MSAs(a, b) ==
    IF Len(a) + Len(b) <= MaxGappedMSA
    THEN Alignments(a, b)
    ELSE { Shifted(a, b, sh) : sh \in 0..Len(a) }
         \cup { <<Shifted(b, a, sh)[2], Shifted(b, a, sh)[1]>> : sh \in 1..Len(b) }

(***************************************************************************)
(* The stitching of two adjacent windows (overlap mode).  The locals of    *)
(* one iteration are the fields of a record: overlap, right, l_pos, r_pos, *)
(* first_match_pos, last_match_pos; reads lists the <<j, l_pos, r_pos>> at *)
(* which the summaries were consulted.                                     *)
(***************************************************************************)
\* uint32_t first_match_pos = -1
NoMatch == (0 - 1) % U32

\* the loop that looks for the first column with equal rows, from column j
RECURSIVE FirstScan(_, _, _, _)
FirstScan(m0, m1, j, st) ==
    IF j >= Len(m0) THEN st
    ELSE IF m0[j + 1] = m1[j + 1] THEN [st EXCEPT !.first_match_pos = j]
    ELSE FirstScan(m0, m1, j + 1,
             [st EXCEPT !.overlap = IF m0[j + 1] # "-" THEN Append(@, m0[j + 1]) ELSE @,
                        !.l_pos   = IF m0[j + 1] # "-" THEN @ + 1 ELSE @,
                        !.r_pos   = IF m1[j + 1] # "-" THEN @ + 1 ELSE @])

\* the loop that looks for the last column with equal rows, from column j
\* down, for (j = len_msa - 1; j > 0; --j)
RECURSIVE SecondScan(_, _, _, _)
SecondScan(m0, m1, j, st) ==
    IF ~(j > 0) THEN st
    ELSE IF m0[j + 1] = m1[j + 1] THEN [st EXCEPT !.last_match_pos = j]
    ELSE SecondScan(m0, m1, j - 1,
             [st EXCEPT !.right = IF m1[j + 1] # "-" THEN Append(@, m1[j + 1]) ELSE @])

\* the loop over the columns first_match_pos .. last_match_pos, from column
\* j on: the set of its outcomes, one for each way the counts of the
\* summaries can decide the columns whose rows hold different bases
RECURSIVE MergeLoop(_, _, _, _)
MergeLoop(m0, m1, j, st) ==
    IF ~(j <= st.last_match_pos) THEN { st }
    ELSE IF m0[j + 1] = m1[j + 1]
         THEN MergeLoop(m0, m1, j + 1,
                  [st EXCEPT !.overlap = Append(@, m0[j + 1]),
                             !.l_pos = @ + 1, !.r_pos = @ + 1])
    ELSE IF m0[j + 1] = "-"
         THEN MergeLoop(m0, m1, j + 1, [st EXCEPT !.r_pos = @ + 1])
    ELSE IF m1[j + 1] = "-"
         THEN MergeLoop(m0, m1, j + 1, [st EXCEPT !.l_pos = @ + 1])
    ELSE LET rd == [st EXCEPT !.reads = Append(@, <<j, st.l_pos, st.r_pos>>)]
         IN  UNION { MergeLoop(m0, m1, j + 1,
                        IF v = "gaps" THEN rd
                        ELSE [rd EXCEPT !.overlap =
                                 Append(@, IF v = "l" THEN m0[j + 1] ELSE m1[j + 1])]) :
                     v \in {"gaps", "l", "r"} }

\* the outcomes of the stitching of consensus_l and consensus_r over the
\* alignment msa of L[start_l, start_l + len_l) and R[0, len_r)
Stitch(consensus_l, consensus_r, len_l, len_r, msa) ==
    LET start_l == (Len(consensus_l) - len_l) % U32
        st0 == [overlap |-> <<>>, right |-> <<>>, l_pos |-> start_l, r_pos |-> 0,
                first_match_pos |-> NoMatch, last_match_pos |-> NoMatch,
                reads |-> <<>>]
        s1  == FirstScan(msa[1], msa[2], 0, st0)
        s2  == SecondScan(msa[1], msa[2], Len(msa[1]) - 1, s1)
    IN  IF s2.first_match_pos = NoMatch \/ s2.last_match_pos = NoMatch
        THEN { [s2 EXCEPT !.overlap = substr(consensus_l, start_l, len_l),
                          !.right   = substr(consensus_r, 0, len_r)] }
        ELSE { [r EXCEPT !.right = Reverse(@)] :
                  r \in MergeLoop(msa[1], msa[2], s2.first_match_pos, s2) }

\* polished_data += overlap + right + consensus_r.substr(len_r, size - 2 * len_r)
StitchedData(data, st, consensus_r, len_r) ==
    data \o st.overlap \o st.right
         \o substr(consensus_r, len_r, (Len(consensus_r) - 2 * len_r) % U64)

(***************************************************************************)
(* The emission of a target.                                               *)
(***************************************************************************)
\* a test that takes no window for the last one of its target
NoFinalWindow(ws, i) == FALSE

\* windows_[i] is the last window of its target
IsFinalWindow(ws, i) == i = Len(ws) - 1 \/ ws[i + 2].rank = 0

\* num_polished_windows += thread_futures[i].get() == true ? 1 : 0
CountPolished(num, ok) == (num + IF ok THEN 1 ELSE 0) % U32

\* the accumulation with the operands exchanged
ConsensusInFront(data, consensus) == consensus \o data

\* polished_data += windows_[i]->consensus() (default mode)
AppendConsensus(data, consensus) == data \o consensus

\* a ratio over one window more than the target has
RatioOverOneMore(num, rank) == <<num, rank + 2>>

\* double polished_ratio = num_polished_windows / (rank + 1), as a fraction
polished_ratio(num, rank) == <<num, rank + 1>>

\* an emit condition that ignores drop_unpolished_sequences
EmitsAlways(drop, ratio) == TRUE

\* !drop_unpolished_sequences || polished_ratio > 0
Emits(drop, ratio) == ~drop \/ ratio[1] > 0

\* std::to_string(double): six digits after the point, rounded to nearest;
\* the value in millionths
to_string(ratio) == (2 * 1000000 * ratio[1] + ratio[2]) \div (2 * ratio[2])

\* createSequence(name + tags, polished_data): the name is that of target
\* id, the tags are r (type kF), LN:i, RC:i and XC:f
createSequence(id, type, data, coverages, ratio) ==
    [id |-> id, r |-> type = "kF", LN |-> Len(data), RC |-> coverages[id + 1],
     XC |-> to_string(ratio), data |-> data]

\* dst after the emit decision for the target of window win
Emit(seqs, drop, win, type, data, coverages, num) ==
    IF Emits(drop, polished_ratio(num, win.rank))
    THEN Append(seqs, createSequence(win.id, type, data, coverages,
                                     polished_ratio(num, win.rank)))
    ELSE seqs

(***************************************************************************)
(* The steps of a run from the end of initialize to the end of polish.     *)
(***************************************************************************)
\* std::vector::resize(n, 0)
resize(vec, n) == [i \in 1..n |-> IF i <= Len(vec) THEN vec[i] ELSE 0]

\* initialize between the overlap parse loop and the layer assigner: the
\* fatal error for an empty list of survivors, else the window builder and
\* targets_coverages_.resize(targets_size, 0)
InitializeWindows ==
    /\ pc = "normalized"
    /\ IF overlaps = <<>>
       THEN /\ pc' = "exit"
            /\ diagnostic' = "empty overlap set!"
            /\ UNCHANGED <<windows_, targets_coverages_>>
       ELSE /\ pc' = "assign"
            /\ windows_' = BuildWindows(targets, window_length_,
                                        Offset(window_length_, overlap_percentage_), 0)
            /\ targets_coverages_' = resize(targets_coverages_, Len(targets))
            /\ UNCHANGED diagnostic
    /\ name_to_id' = EmptyMap
    /\ id_to_id' = EmptyMap
    /\ UNCHANGED <<normVars, cfgVars, sequences_, sequences_size, queries, poolVars, assigned, cur, bp_j, prev_window_id, lastCall, lastFragment,
                   polishVars>>

\* initialize returns: the layer assigner has walked every overlap of the
\* list of survivors
FinishInitialize ==
    /\ pc = "assign"
    /\ cur = NoOverlap
    /\ ~(Len(assigned) < Len(overlaps))
    /\ pc' = "initialized"
    /\ UNCHANGED <<normVars, cfgVars, loadVars, diagnostic, poolVars, assignVars, polishVars>>

\* polish is called: a generate_consensus task is submitted for every window
PolishBegin ==
    /\ pc = "initialized"
    /\ pc' = "polish"
    /\ drop_unpolished_sequences' \in BOOLEAN
    /\ thread_futures' = [n \in 1..Len(windows_) |-> "pending"]
    /\ wi' = 0
    /\ polished_data' = <<>>
    /\ num_polished_windows' = 0
    /\ dst' = <<>>
    /\ decided' = <<>>
    /\ lastStitch' = NoStitch
    /\ tasks' = [n \in 1..Len(windows_) |-> QueuedTask]
    /\ UNCHANGED <<normVars, cfgVars, loadVars, diagnostic, assignVars, poa_outputs,
                   thread_pool_, thread_to_id_, alignment_engines_>>

\* one iteration of the default-mode loop once the wait has returned, o
\* being what the task of window wi returned and left: append the consensus
\* and emit the target at its last window
DefaultStep(o) ==
    /\ pc = "polish"
    /\ overlap_percentage_[1] = 0
    /\ wi < Len(thread_futures)
    /\    LET win   == [windows_[wi + 1] EXCEPT !.consensus = o.consensus]
              num   == CountPolished(num_polished_windows, o.ok)
              data  == AppendConsensus(polished_data, win.consensus)
          IN  /\ thread_futures' = [thread_futures EXCEPT ![wi + 1] = IF o.ok THEN "true" ELSE "false"]
              /\ windows_' = [windows_ EXCEPT ![wi + 1] = [win EXCEPT !.live = FALSE]]
              /\ IF IsFinalWindow(windows_, wi)
                 THEN /\ dst' = Emit(dst, drop_unpolished_sequences, win, type_, data,
                                     targets_coverages_, num)
                      /\ decided' = Append(decided, wi)
                      /\ num_polished_windows' = 0
                      /\ polished_data' = <<>>
                 ELSE /\ num_polished_windows' = num
                      /\ polished_data' = data
                      /\ UNCHANGED <<dst, decided>>
    /\ wi' = wi + 1
    /\ UNCHANGED <<pc, normVars, cfgVars, loadVars, diagnostic, targets_coverages_,
                   assigned, cur, bp_j, prev_window_id, lastCall, lastFragment,
                   poa_outputs,
                   drop_unpolished_sequences, lastStitch, thread_pool_, thread_to_id_,
                   alignment_engines_>>

\* the task of window wi runs on the first thread of the pool while the
\* caller waits for it, and the caller goes on
PolishDefault ==
    /\ wi < Len(tasks)
    /\ \E o \in generate_consensus(windows_[wi + 1], poa_outputs) :
          /\ DefaultStep(o)
          /\ tasks' = [tasks EXCEPT ![wi + 1] =
                          FinishedTask(thread_pool_[1], thread_to_id_[thread_pool_[1]], o)]

\* thread_futures[i].wait() returns for a task the pool has run, and the
\* caller goes on
WaitDefault ==
    /\ wi < Len(tasks)
    /\ FutureReady(wi)
    /\ DefaultStep([ok |-> thread_futures[wi + 1] = "true",
                    consensus |-> windows_[wi + 1].consensus])
    /\ UNCHANGED tasks

\* the end of an iteration of the overlap-mode loop, with ws, num and data
\* the windows, the counter and the accumulator after the stitching: the
\* last window of a target adds its tail and the target is emitted
OverlapEmit(ws, num, data, stitch) ==
    LET win  == ws[wi + 1]
        to   == total_overlap(overlap_percentage_)
        full == data \o substr(win.consensus,
                               MinusOverlap(Len(win.consensus), to), U64)
    IN  IF IsFinalWindow(windows_, wi)
        THEN /\ dst' = Emit(dst, drop_unpolished_sequences, win, type_, full,
                            targets_coverages_, num)
             /\ decided' = Append(decided, wi)
             /\ num_polished_windows' = 0
             /\ polished_data' = <<>>
             /\ windows_' = [ws EXCEPT ![wi + 1].live = FALSE]
             /\ lastStitch' = [stitch EXCEPT !.sequence = full]
        ELSE /\ num_polished_windows' = num
             /\ polished_data' = data
             /\ windows_' = ws
             /\ lastStitch' = [stitch EXCEPT !.sequence = data]
             /\ UNCHANGED <<dst, decided>>

\* one iteration of the overlap-mode loop once the wait has returned, o
\* being what the task of window wi returned and left: a window of rank 0
\* contributes its head, any other window is stitched to its left
\* neighbour, which is then released
OverlapStep(o) ==
    /\ pc = "polish"
    /\ overlap_percentage_[1] # 0
    /\ wi < Len(thread_futures)
    /\    LET to    == total_overlap(overlap_percentage_)
              win   == [windows_[wi + 1] EXCEPT !.consensus = o.consensus]
              ws    == [windows_ EXCEPT ![wi + 1] = win]
              num   == CountPolished(num_polished_windows, o.ok)
              final == IsFinalWindow(windows_, wi)
              here  == [NoStitch EXCEPT !.i = wi, !.rank = win.rank, !.final = final,
                                        !.consensus_r = win.consensus]
          IN  /\ thread_futures' = [thread_futures EXCEPT ![wi + 1] = IF o.ok THEN "true" ELSE "false"]
              /\ IF win.rank = 0
                 THEN /\ OverlapEmit(ws, num,
                             polished_data \o substr(win.consensus, 0,
                                 MinusOverlap(Len(win.consensus), to)),
                             here)
                      /\ pc' = pc
                 ELSE LET consensus_l == windows_[wi].consensus
                          consensus_r == win.consensus
                          len_l   == TimesOverlap(Len(consensus_l), to) % U32
                          start_l == (Len(consensus_l) - len_l) % U32
                          len_r   == IF final THEN Len(consensus_r)
                                     ELSE TimesOverlap(Len(consensus_r), to) % U32
                      IN  \E msa \in MSAs(substr(consensus_l, start_l, len_l),
                                          substr(consensus_r, 0, len_r)) :
                             IF windows_[wi].live /\ Len(msa[1]) > 0
                             THEN \E st \in Stitch(consensus_l, consensus_r,
                                                   len_l, len_r, msa) :
                                     /\ OverlapEmit(
                                            [ws EXCEPT ![wi].live = FALSE], num,
                                            StitchedData(polished_data, st,
                                                         consensus_r, len_r),
                                            [here EXCEPT
                                               !.made = TRUE,
                                               !.consensus_l = consensus_l,
                                               !.msa = msa,
                                               !.first_match_pos = st.first_match_pos,
                                               !.last_match_pos = st.last_match_pos,
                                               !.reads = st.reads])
                                     /\ pc' = pc
                             ELSE \* a released window or msa[0][-1] is read
                                  /\ pc' = "undefined"
                                  /\ UNCHANGED <<windows_, polished_data,
                                                 num_polished_windows, dst, decided,
                                                 lastStitch>>
    /\ wi' = wi + 1
    /\ UNCHANGED <<normVars, cfgVars, loadVars, diagnostic, targets_coverages_,
                   assigned, cur, bp_j, prev_window_id, lastCall, lastFragment,
                   poa_outputs,
                   drop_unpolished_sequences, thread_pool_, thread_to_id_,
                   alignment_engines_>>

\* the task of window wi runs on the first thread of the pool while the
\* caller waits for it, and the caller goes on
PolishOverlap ==
    /\ wi < Len(tasks)
    /\ \E o \in generate_consensus(windows_[wi + 1], poa_outputs) :
          /\ OverlapStep(o)
          /\ tasks' = [tasks EXCEPT ![wi + 1] =
                          FinishedTask(thread_pool_[1], thread_to_id_[thread_pool_[1]], o)]

\* thread_futures[i].wait() returns for a task the pool has run, and the
\* caller goes on
WaitOverlap ==
    /\ wi < Len(tasks)
    /\ FutureReady(wi)
    /\ OverlapStep([ok |-> thread_futures[wi + 1] = "true",
                    consensus |-> windows_[wi + 1].consensus])
    /\ UNCHANGED tasks

\* a thread of the pool that runs no task takes a task from the queue: the
\* task looks its thread up in thread_to_id_ and ends the run if it is not
\* there, else it calls generate_consensus with the engine of that index
TaskStart ==
    /\ pc = "polish"
    /\ \E n \in 1..Len(tasks), k \in 1..Len(thread_pool_) :
          LET th == thread_pool_[k]
          IN  /\ tasks[n].state = "queued"
              /\ \A m \in 1..Len(tasks) :
                    tasks[m].state = "running" => tasks[m].thread # th
              /\ IF th \notin DOMAIN thread_to_id_
                 THEN /\ pc' = "exit"
                      /\ diagnostic' = "thread identifier not present!"
                      /\ UNCHANGED tasks
                 ELSE IF ~(thread_to_id_[th] < alignment_engines_)
                 THEN \* alignment_engines_[it->second] is out of range
                      /\ pc' = "undefined"
                      /\ UNCHANGED <<tasks, diagnostic>>
                 ELSE /\ tasks' = [tasks EXCEPT ![n] =
                                     [QueuedTask EXCEPT !.state = "running", !.thread = th,
                                                        !.engine = thread_to_id_[th]]]
                      /\ UNCHANGED <<pc, diagnostic>>
    /\ UNCHANGED <<normVars, cfgVars, loadVars, assignVars, polishVars, thread_pool_,
                   thread_to_id_, alignment_engines_>>

\* generate_consensus returns in a running task: the window holds its
\* consensus and the future its value
TaskFinish ==
    /\ pc = "polish"
    /\ \E n \in 1..Len(tasks) :
          /\ tasks[n].state = "running"
          /\ \E o \in generate_consensus(windows_[n], poa_outputs) :
                /\ tasks' = [tasks EXCEPT ![n] =
                               FinishedTask(tasks[n].thread, tasks[n].engine, o)]
                /\ windows_' = [windows_ EXCEPT ![n].consensus = o.consensus]
                /\ thread_futures' = [thread_futures EXCEPT ![n] =
                                         IF o.ok THEN "true" ELSE "false"]
    /\ UNCHANGED <<pc, normVars, cfgVars, loadVars, diagnostic, targets_coverages_,
                   assigned, cur, bp_j, prev_window_id, lastCall, lastFragment,
                   poa_outputs,
                   drop_unpolished_sequences, wi, polished_data, num_polished_windows,
                   dst, decided, lastStitch, thread_pool_, thread_to_id_,
                   alignment_engines_>>

\* the end of polish: windows_ and sequences_ are swapped with empty vectors
PolishEnd ==
    /\ pc = "polish"
    /\ wi >= Len(thread_futures)
    /\ pc' = "done"
    /\ windows_' = <<>>
    /\ sequences_' = <<>>
    /\ UNCHANGED <<normVars, cfgVars, name_to_id, id_to_id, sequences_size, queries,
                   diagnostic, poolVars, targets_coverages_, assigned, cur, bp_j,
                   prev_window_id, lastCall, lastFragment, polishVars>>

\* the sum of the elements of a sequence of numbers
RECURSIVE SumSeq(_)
SumSeq(q) == IF q = <<>> THEN 0 ELSE Head(q) + SumSeq(Tail(q))

\* a run from the end of the overlap normalisation on: windows of two bases,
\* default mode or overlap mode
InitPolish ==
    /\ pc = "normalized"
    /\ type_ \in {"kC", "kF"}
    /\ l = 0
    /\ parsed = <<>>
    /\ has_data = {}
    /\ has_reverse_data = {}
    /\ lastShrink = NoShrink
    /\ window_length_ = 2
    /\ overlap_percentage_ \in { <<0, 1>>, <<1, 4>> }
    /\ targets \in { tg \in UNION { TargetSets(n) : n \in 1..MaxTargets } :
                        SumSeq(tg) = TotalTargetLen }
    /\ overlaps \in UNION { SurvivorLists(k, Len(targets)) : k \in 0..MaxAssigned }
    /\ windows_ = <<>>
    /\ targets_coverages_ = <<>>
    /\ assigned = <<>>
    /\ cur = NoOverlap
    /\ bp_j = 0
    /\ prev_window_id = 0
    /\ lastCall = NoCall
    /\ lastFragment = NoFragment
    /\ poa_outputs = { <<"T", "T">>, <<"G", "A", "C">> }
    /\ NotPolishing
    /\ Loaded
    /\ SingleThread

NextPolish ==
    \/ InitializeWindows
    \/ BeginOverlap
    \/ AssignFragment
    \/ EndOverlap
    \/ FinishInitialize
    \/ PolishBegin
    \/ PolishDefault
    \/ PolishOverlap
    \/ PolishEnd

\* initialize from the layer assigner on, followed by polish
SpecPolish == InitPolish /\ [][NextPolish]_vars

\* initialize before the window builder, for every window length up to
\* MaxWindowLength and overlap percentages 0, 1/4 and 3/8
InitWindows ==
    /\ pc = "normalized"
    /\ IdleNorm
    /\ window_length_ \in 1..MaxWindowLength
    /\ overlap_percentage_ \in { <<0, 1>>, <<1, 4>>, <<3, 8>> }
    /\ targets \in UNION { TargetSets(n) : n \in 1..MaxTargets }
    /\ overlaps = <<Survivor(1, 0, Len(targets))>>
    /\ windows_ = <<>>
    /\ targets_coverages_ = <<>>
    /\ assigned = <<>>
    /\ cur = NoOverlap
    /\ bp_j = 0
    /\ prev_window_id = 0
    /\ lastCall = NoCall
    /\ lastFragment = NoFragment
    /\ IdlePolish
    /\ Loaded
    /\ SingleThread

NextWindows == InitializeWindows

\* the window builder of Polisher::initialize
SpecWindows == InitWindows /\ [][NextWindows]_vars

\* the ways to put a layer into some of the given windows
Layered(ws) ==
    { [n \in 1..Len(ws) |-> [ws[n] EXCEPT !.layers = f[n]]] :
         f \in [1..Len(ws) -> {0, 1}] }

\* initialize has returned for a Polisher of up to MaxThreads threads: every
\* target has one overlap, which has left a layer in some of its windows
InitTasks ==
    /\ pc = "initialized"
    /\ IdleNorm
    /\ window_length_ = 2
    /\ overlap_percentage_ \in { <<0, 1>>, <<1, 4>> }
    /\ targets \in { tg \in UNION { TargetSets(n) : n \in 1..MaxTargets } :
                        SumSeq(tg) = TotalTargetLen }
    /\ overlaps = [k \in 1..Len(targets) |-> Survivor(k, k - 1, Len(targets))]
    /\ windows_ \in Layered(BuildWindows(targets, window_length_,
                                         Offset(window_length_, overlap_percentage_), 0))
    /\ targets_coverages_ = [k \in 1..Len(targets) |-> 1]
    /\ assigned = [k \in 1..Len(targets) |-> k - 1]
    /\ cur = NoOverlap
    /\ bp_j = 0
    /\ prev_window_id = 0
    /\ lastCall = NoCall
    /\ lastFragment = NoFragment
    /\ poa_outputs = { <<"T", "T">> }
    /\ NotPolishing
    /\ Loaded
    /\ \E num_threads \in 1..MaxThreads : Constructed(num_threads)
    /\ tasks = <<>>

NextTasks ==
    \/ PolishBegin
    \/ TaskStart
    \/ TaskFinish
    \/ WaitDefault
    \/ WaitOverlap
    \/ PolishEnd

\* polish with the tasks run by the threads of the pool
SpecTasks == InitTasks /\ [][NextTasks]_vars

\* a run from the start of initialize: nothing is loaded yet
InitLoad ==
    /\ pc = "start"
    /\ type_ = "kC"
    /\ overlaps = <<>>
    /\ l = 0
    /\ parsed = <<>>
    /\ has_data = {}
    /\ has_reverse_data = {}
    /\ lastShrink = NoShrink
    /\ window_length_ = 1
    /\ overlap_percentage_ = <<0, 1>>
    /\ targets = <<>>
    /\ windows_ = <<>>
    /\ targets_coverages_ = <<>>
    /\ assigned = <<>>
    /\ cur = NoOverlap
    /\ bp_j = 0
    /\ prev_window_id = 0
    /\ lastCall = NoCall
    /\ lastFragment = NoFragment
    /\ IdlePolish
    /\ sequences_ = <<>>
    /\ name_to_id = EmptyMap
    /\ id_to_id = EmptyMap
    /\ sequences_size = 0
    /\ queries = <<>>
    /\ diagnostic = ""
    /\ SingleThread

NextLoad ==
    \/ LoadTargets
    \/ LoadSequences
    \/ ParseLoaded
    \/ InitializeWindows
    \/ BeginOverlap
    \/ AssignFragment
    \/ EndOverlap
    \/ FinishInitialize

\* Polisher::initialize from its start to its return
SpecLoad == InitLoad /\ [][NextLoad]_vars

\* the consensuses of the stitching runs
AAAAGGGG == <<"A", "A", "A", "A", "G", "G", "G", "G">>

GGGGTTTT == <<"G", "G", "G", "G", "T", "T", "T", "T">>

\* two consensuses whose overlapping parts GACG and GTTG differ in the two
\* bases between their equal ends
AAAAGACG == <<"A", "A", "A", "A", "G", "A", "C", "G">>

GTTGTTTT == <<"G", "T", "T", "G", "T", "T", "T", "T">>

\* a stitching run: initialize has returned, the one target has 2 to
\* MaxStitchWindows windows of length 4 that overlap by a quarter, and one
\* overlap that spans the target has left a layer in every window
InitStitch ==
    /\ pc = "initialized"
    /\ IdleNorm
    /\ window_length_ = 4
    /\ overlap_percentage_ = <<1, 4>>
    /\ targets \in { <<n * window_length_>> : n \in 2..MaxStitchWindows }
    /\ LET offset == Offset(window_length_, overlap_percentage_)
           built  == BuildWindows(targets, window_length_, offset, 0)
           bp     == BreakingPoints(FragmentSpans(built, 0, 0, targets[1]),
                                    [n \in 1..Len(built) |-> MaxQuerySpan], 0)
       IN  /\ windows_ = [n \in 1..Len(built) |-> [built[n] EXCEPT !.layers = 1]]
           /\ prev_window_id = Len(built) - 1
           /\ lastCall = AddLayerCall(bp, Len(bp) - 2, Len(built) - 1, 0,
                                      window_length_, offset, FALSE)
           /\ lastFragment = [kind |-> "layer", j |-> Len(bp) - 2]
    /\ overlaps = <<Survivor(1, 0, 1)>>
    /\ targets_coverages_ = <<1>>
    /\ assigned = <<0>>
    /\ cur = NoOverlap
    /\ bp_j = 0
    /\ poa_outputs \in { { AAAAGGGG, GGGGTTTT }, { AAAAGACG, GTTGTTTT } }
    /\ NotPolishing
    /\ Loaded
    /\ SingleThread

NextStitch == PolishBegin \/ PolishOverlap \/ PolishEnd

\* polish in overlap mode, on longer consensuses
SpecStitch == InitStitch /\ [][NextStitch]_vars

(***************************************************************************)
(* The claims about polish.                                                *)
(***************************************************************************)
\* the indexes (1-based) of the windows of target id, and the futures among
\* them that returned true
WindowsOf(id) == { n \in 1..Len(windows_) : windows_[n].id = id }

PolishedOf(id) == { n \in WindowsOf(id) : thread_futures[n] = "true" }

\* every window of target id has been consumed by the loop of polish
Finished(id) == \A n \in WindowsOf(id) : n <= wi

\* the consensuses of the windows of target id of rank r, r + 1, ... in turn
RECURSIVE ConsensusFromRank(_, _)
ConsensusFromRank(id, r) ==
    IF \E n \in WindowsOf(id) : windows_[n].rank = r
    THEN windows_[CHOOSE n \in WindowsOf(id) : windows_[n].rank = r].consensus
         \o ConsensusFromRank(id, r + 1)
    ELSE <<>>

\* the number of elements of a sequence that equal x
CountIn(q, x) == Cardinality({ k \in 1..Len(q) : q[k] = x })

\* C5: in overlap mode, when the tail of the left consensus and the head of
\* the right one align as a perfect match, the stitched sequence holds every
\* base of the shared region once: AAAAGGGG and GGGGTTTT with
\* overlap_percentage 0.25 give AAAAGGGGTTTT, also when the right window is
\* the last window of its target (for a right window that is not the last,
\* its tail TTTT is left to the next stitch and the accumulator is AAAAGGGG).
C5_PerfectMatchStitch ==
    (/\ lastStitch.made
     /\ lastStitch.rank = 1
     /\ overlap_percentage_ = <<1, 4>>
     /\ lastStitch.consensus_l = AAAAGGGG
     /\ lastStitch.consensus_r = GGGGTTTT
     /\ lastStitch.msa = Shifted(<<"G", "G", "G", "G">>,
                                 IF lastStitch.final THEN GGGGTTTT
                                 ELSE <<"G", "G", "G", "G">>, 0))
        => lastStitch.sequence =
              IF lastStitch.final THEN AAAAGGGG \o <<"T", "T", "T", "T">>
              ELSE AAAAGGGG

\* C6: in overlap mode the prefix of a target's first window consensus L that
\* polish appends is L[0 .. start_L), with start_L = |L| - len_L and
\* len_L = floor(|L| * 2 * overlap_percentage) the length of the tail that is
\* stitched later, so that prefix and tail cover L.
C6_PrefixEndsAtStartL ==
    (/\ pc = "polish"
     /\ wi > 0
     /\ lastStitch.i = wi - 1
     /\ lastStitch.rank = 0
     /\ ~lastStitch.final)
        => LET L     == lastStitch.consensus_r
               len_L == (Len(L) * 2 * overlap_percentage_[1]) \div overlap_percentage_[2]
           IN  lastStitch.sequence = SubSeq(L, 1, Len(L) - len_L)

\* C7: in default mode the body emitted for a target is the concatenation of
\* the consensuses of that target's windows in increasing rank order, and the
\* accumulator is empty when a window of rank 0 is reached.
C7_DefaultBodyIsConcatenation ==
    (pc = "polish" /\ overlap_percentage_[1] = 0)
        => /\ \A k \in 1..Len(dst) : dst[k].data = ConsensusFromRank(dst[k].id, 0)
           /\ (wi < Len(windows_) /\ windows_[wi + 1].rank = 0) => polished_data = <<>>

\* a run of two targets in default mode whose second target, of two windows
\* with different consensuses, has been emitted
C7_Witness ==
    /\ pc = "polish"
    /\ overlap_percentage_[1] = 0
    /\ Len(dst) = 2
    /\ Cardinality(WindowsOf(1)) = 2
    /\ PolishedOf(1) # {}
    /\ \E m, n \in WindowsOf(1) : windows_[m].consensus # windows_[n].consensus

\* C8: the XC:f value emitted for a target is the number of its windows whose
\* generate_consensus returned true divided by the number of its windows (as
\* std::to_string prints it), in default and in overlap mode.
C8_XCIsPolishedOverTotal ==
    pc = "polish"
        => \A k \in 1..Len(dst) :
              dst[k].XC = to_string(<<Cardinality(PolishedOf(dst[k].id)),
                                      Cardinality(WindowsOf(dst[k].id))>>)

\* an overlap-mode run whose first target is fully polished and whose second
\* target, of two windows, is half polished
C8_Witness ==
    /\ pc = "polish"
    /\ overlap_percentage_[1] # 0
    /\ Len(dst) = 2
    /\ dst[1].XC = 1000000
    /\ dst[2].XC = 500000

\* C9: the emit decision of a target is taken once, at its last window; a
\* target is emitted once if drop_unpolished_sequences is false, and iff one
\* of its windows was polished if it is true; dst is in increasing target id
\* order.
C9_EmitOncePerTarget ==
    pc = "polish"
        => /\ \A id \in 0 .. (Len(targets) - 1) :
                 /\ Cardinality({ d \in 1..Len(decided) :
                                     windows_[decided[d] + 1].id = id })
                       = IF Finished(id) THEN 1 ELSE 0
                 /\ Cardinality({ k \in 1..Len(dst) : dst[k].id = id })
                       = IF Finished(id)
                            /\ (~drop_unpolished_sequences \/ PolishedOf(id) # {})
                         THEN 1 ELSE 0
           /\ \A d \in 1..Len(decided) :
                 \A n \in WindowsOf(windows_[decided[d] + 1].id) : n <= decided[d] + 1
           /\ \A k \in 1..Len(dst) : \A m \in 1..Len(dst) :
                 k < m => dst[k].id < dst[m].id

\* a run with drop_unpolished_sequences whose first target was dropped and
\* whose second target was emitted
C9_Witness ==
    /\ pc = "polish"
    /\ drop_unpolished_sequences
    /\ wi = Len(windows_)
    /\ Len(targets) = 2
    /\ Len(dst) = 1
    /\ dst[1].id = 1

\* C10: the RC:i value of a target is the number of surviving overlaps whose
\* t_id is that target, whether or not a fragment of theirs became a layer,
\* and the RC:i values of all targets sum to the number of survivors.
C10_RCCountsOverlaps ==
    pc = "polish"
        => /\ \A k \in 1..Len(dst) : dst[k].RC = CountIn(assigned, dst[k].id)
           /\ (wi = Len(windows_) /\ ~drop_unpolished_sequences)
                 => SumSeq([k \in 1..Len(dst) |-> dst[k].RC]) = Len(assigned)

\* a target emitted with RC:i 2 none of whose windows received a layer,
\* beside a target without overlaps
C10_Witness ==
    /\ pc = "polish"
    /\ Len(dst) = 2
    /\ \E k \in 1..2 :
          /\ dst[k].RC = 2
          /\ \A n \in WindowsOf(dst[k].id) : windows_[n].layers = 0

\* the original sequence of target id
TargetData(id) == [k \in 1..targets[id + 1] |-> TargetBase(id, k - 1)]

\* the targets none of the surviving overlaps is assigned to
Unassigned == { id \in 0 .. (Len(targets) - 1) :
                   \A k \in 1..Len(overlaps) : overlaps[k].t # id }

\* the sequences emitted for target id
EmittedFor(id) == { k \in 1..Len(dst) : dst[k].id = id }

\* C11: in default mode with drop_unpolished_sequences false a target to
\* which no overlap is assigned is emitted with its original sequence as
\* body, RC:i:0 and XC:f:0, also in a run without any overlap (it is dropped
\* when drop_unpolished_sequences is true).  At the end of a run, be it the
\* end of polish or the exit of initialize (polish was then never called and
\* drop_unpolished_sequences has its idle value, false):
C11_UnassignedTargetEmitted ==
    (pc \in {"done", "exit"} /\ overlap_percentage_[1] = 0)
        => \A id \in Unassigned :
              IF drop_unpolished_sequences
              THEN EmittedFor(id) = {}
              ELSE \E k \in EmittedFor(id) :
                      /\ dst[k].data = TargetData(id)
                      /\ dst[k].RC = 0
                      /\ dst[k].XC = 0

\* C11 as amended: the same in a run in which an overlap survives the
\* normalisation; a run without any surviving overlap ends in the fatal
\* error of initialize, without a window and without an emitted sequence.
C11_UnassignedTargetEmittedIfRunPolished ==
    /\ (pc = "done" /\ overlap_percentage_[1] = 0)
          => \A id \in Unassigned :
                IF drop_unpolished_sequences
                THEN EmittedFor(id) = {}
                ELSE \E k \in EmittedFor(id) :
                        /\ dst[k].data = TargetData(id)
                        /\ dst[k].RC = 0
                        /\ dst[k].XC = 0
    /\ pc = "exit" => overlaps = <<>> /\ windows_ = <<>> /\ dst = <<>>
    /\ pc = "done" => overlaps # <<>>

\* a polished run of two targets in default mode whose second target, of two
\* windows or more, has no overlap and is emitted
C11_Witness ==
    /\ pc = "done"
    /\ overlap_percentage_[1] = 0
    /\ ~drop_unpolished_sequences
    /\ 1 \in Unassigned
    /\ targets[2] > window_length_
    /\ EmittedFor(1) # {}

(***************************************************************************)
(* The claims about the loading and the end of initialize.                 *)
(***************************************************************************)
\* the targets of the store: the first Len(targets) sequences
TargetOf(id) == sequences_[id + 1]

\* a delivered query has the name of a target and a data or quality size
\* that differs from that target's (the target of that name loaded last)
DuplicateUnequal ==
    \E k \in 1..Len(queries) : \E id \in 0 .. (Len(targets) - 1) :
        /\ TargetOf(id).name = queries[k].name
        /\ \A id2 \in (id + 1) .. (Len(targets) - 1) : TargetOf(id2).name # queries[k].name
        /\ (TargetOf(id).size # queries[k].size \/ TargetOf(id).qsize # queries[k].qsize)

\* the windows the window builder creates for the targets of the run
BuiltWindows ==
    BuildWindows(targets, window_length_, Offset(window_length_, overlap_percentage_), 0)

\* the windows of the run are the built ones, whatever layers they hold
WindowsCreated ==
    /\ Len(windows_) = Len(BuiltWindows)
    /\ \A n \in 1..Len(windows_) : [windows_[n] EXCEPT !.layers = 0] = BuiltWindows[n]

\* C12: initialize ends in a fatal error and creates no window whenever the
\* target set is empty, the query set is empty, or no overlap survives the
\* normalisation; in every other case it returns and has created the windows.
C12_FatalIffInputEmpty ==
    /\ pc = "exit"
          => /\ windows_ = <<>>
             /\ \/ targets = <<>>
                \/ queries = <<>>
                \/ (diagnostic = "empty overlap set!" /\ overlaps = <<>>)
    /\ pc = "initialized"
          => targets # <<>> /\ queries # <<>> /\ overlaps # <<>> /\ WindowsCreated

\* C12, amended: as above, with the fourth fatal case of a query that has a
\* target's name and a data or quality length unequal to that target's.
C12_FatalIffInputEmptyOrDuplicateUnequal ==
    /\ pc = "exit"
          => /\ windows_ = <<>>
             /\ diagnostic # ""
             /\ \/ targets = <<>>
                \/ (targets # <<>> /\ queries = <<>>)
                \/ (targets # <<>> /\ DuplicateUnequal)
                \/ (diagnostic = "empty overlap set!" /\ overlaps = <<>>
                    /\ targets # <<>> /\ queries # <<>> /\ ~DuplicateUnequal)
    /\ pc = "initialized"
          => /\ targets # <<>> /\ queries # <<>> /\ overlaps # <<>>
             /\ ~DuplicateUnequal
             /\ diagnostic = ""
             /\ WindowsCreated
             /\ windows_ # <<>>
    /\ pc \in {"start", "load", "parse", "normalized", "assign", "exit", "initialized"}

\* C12 witness: a run with a target, a query that is a duplicate of it with
\* equal sizes, and a surviving overlap has returned with a window of two
\* bases' target
C12_Witness ==
    /\ pc = "initialized"
    /\ \E k \in 1..Len(queries) : queries[k].name = TargetOf(0).name
    /\ Len(windows_) >= 2
    /\ overlaps # <<>>

(***************************************************************************)
(* The claim about the window builder.                                     *)
(***************************************************************************)
\* the indexes in windows_ of the windows of target id, in their order
WindowIndexes(id) == { n \in 1..Len(windows_) : windows_[n].id = id }

\* the target positions window n spans
SpanOf(n) == windows_[n].start .. (windows_[n].start + windows_[n].backbone_length - 1)

\* C13: for every target of length L >= 1 the window builder creates
\* ceil(L / window_length) windows of ranks 0, 1, ... in that order; with
\* offset = floor(window_length * overlap_percentage) window k spans
\* [max(0, k * window_length - offset), min(L, (k + 1) * window_length + offset));
\* every window is at least 1 long, together they cover [0, L), and with
\* offset = 0 they partition it.
C13_WindowsOfTarget ==
    pc = "assign"
        => LET w      == window_length_
               offset == (w * overlap_percentage_[1]) \div overlap_percentage_[2]
           IN  \A id \in 0 .. (Len(targets) - 1) :
                  LET L     == targets[id + 1]
                      first == Cardinality({ n \in 1..Len(windows_) : windows_[n].id < id })
                      count == (L + w - 1) \div w
                  IN  /\ WindowIndexes(id) = (first + 1) .. (first + count)
                      /\ \A k \in 0 .. (count - 1) :
                            LET win == windows_[first + k + 1]
                            IN  /\ win.rank = k
                                /\ win.start = Max(0, k * w - offset)
                                /\ win.start + win.backbone_length
                                      = Min(L, (k + 1) * w + offset)
                                /\ win.backbone_length >= 1
                      /\ UNION { SpanOf(n) : n \in WindowIndexes(id) } = 0 .. (L - 1)
                      /\ offset = 0
                            => \A m, n \in WindowIndexes(id) :
                                  m # n => SpanOf(m) \cap SpanOf(n) = {}

\* C13 witness: the windows are built with an offset of 1, and a target
\* whose length is no multiple of the window length has two windows
C13_Witness ==
    /\ pc = "assign"
    /\ (window_length_ * overlap_percentage_[1]) \div overlap_percentage_[2] = 1
    /\ \E id \in 0 .. (Len(targets) - 1) :
          /\ Cardinality(WindowIndexes(id)) = 2
          /\ targets[id + 1] % window_length_ # 0

(***************************************************************************)
(* The claims about the chunking of the overlap input.                     *)
(***************************************************************************)
\* the list the parse loop leaves when the parser delivers inp as one chunk
SingleChunk(inp, type) ==
    LET s   == ScanChunk(inp, 0, 0, type)
        ov1 == remove_invalid_overlaps(s.ov, s.c, Len(s.ov), type)
    IN  shrinkToFit(ov1, 0).src

\* C14: the list of overlaps that survives normalisation, its elements and
\* their order, is for every chunking of the input the list that processing
\* the input as a single chunk leaves.
C14_ChunkingLeavesSurvivors ==
    pc = "normalized" => overlaps = SingleChunk(parsed, type_)

(***************************************************************************)
(* The claims about the tasks of polish.                                   *)
(***************************************************************************)
\* the window the builder created at index n, with the consensus its task left
WindowAfterTask(n) == [BuiltWindows[n] EXCEPT !.consensus = tasks[n].consensus]

\* what the default-mode loop emits from window index n on when it runs
\* after all tasks, alone: data and num are the accumulator and the counter
RECURSIVE SequentialDst(_, _, _, _)
SequentialDst(n, data, num, seqs) ==
    IF n > Len(tasks) THEN seqs
    ELSE LET win   == WindowAfterTask(n)
             data1 == AppendConsensus(data, win.consensus)
             num1  == CountPolished(num, tasks[n].ok)
         IN  IF IsFinalWindow(BuiltWindows, n - 1)
             THEN SequentialDst(n + 1, <<>>, 0,
                      Emit(seqs, drop_unpolished_sequences, win, type_, data1,
                           targets_coverages_, num1))
             ELSE SequentialDst(n + 1, data1, num1, seqs)

\* the name and the tags of an emitted sequence that do not depend on its body
TagsOf(sq) == [id |-> sq.id, r |-> sq.r, RC |-> sq.RC, XC |-> sq.XC]

\* the caller takes the result of window wi in this step
CallerStep == wi' = wi + 1

\* C15: for every interleaving and completion order of the tasks, the caller
\* reads the consensus of window i, and of window i - 1 when it stitches,
\* only after the task of that window has returned; dst is what the loop
\* emits when it runs alone after all tasks (in overlap mode: its names and
\* tags, the bodies depending on the alignments of the stitching too).
C15_ReadsAfterTaskFinished ==
    /\ [][CallerStep =>
             /\ tasks[wi + 1].state = "finished"
             /\ windows_[wi + 1].consensus = tasks[wi + 1].consensus
             /\ (overlap_percentage_[1] # 0 /\ windows_[wi + 1].rank # 0)
                   => /\ tasks[wi].state = "finished"
                      /\ windows_[wi].consensus = tasks[wi].consensus]_vars
    /\ [](pc = "done"
             => LET ref == SequentialDst(1, <<>>, 0, <<>>)
                IN  /\ Len(dst) = Len(ref)
                    /\ \A k \in 1..Len(dst) : TagsOf(dst[k]) = TagsOf(ref[k])
                    /\ overlap_percentage_[1] = 0 => dst = ref)

\* C15 witness: in overlap mode the caller has taken window 0 and waits for
\* window 1, whose task still runs, while the task of window 2 has returned
C15_Witness ==
    /\ pc = "polish"
    /\ overlap_percentage_[1] # 0
    /\ wi = 1
    /\ windows_[2].rank = 1
    /\ tasks[2].state = "running"
    /\ tasks[3].state = "finished"

\* the tasks that hold an engine: a running task, and a task that has returned
Started == { n \in 1..Len(tasks) : tasks[n].state \in {"running", "finished"} }

\* C16: no two tasks that run at the same time use the same alignment
\* engine: thread_to_id_ maps the threads of the pool to distinct engine
\* indexes below the number of engines, a task uses the engine of the thread
\* it runs on, and no task runs on a thread that the map does not hold (it
\* ends the run instead).
C16_EnginePerThread ==
    /\ \A m, n \in Started :
          (m # n /\ tasks[m].state = "running" /\ tasks[n].state = "running")
              => tasks[m].engine # tasks[n].engine
    /\ \A th, th2 \in DOMAIN thread_to_id_ :
          /\ thread_to_id_[th] < alignment_engines_
          /\ th # th2 => thread_to_id_[th] # thread_to_id_[th2]
    /\ \A n \in Started :
          /\ tasks[n].thread \in DOMAIN thread_to_id_
          /\ tasks[n].engine = thread_to_id_[tasks[n].thread]
    /\ pc # "undefined"
    /\ diagnostic = "thread identifier not present!"
          => /\ pc = "exit"
             /\ \E k \in 1..Len(thread_pool_) : thread_pool_[k] \notin DOMAIN thread_to_id_

\* C16 witness: two tasks run at the same time, each on its own thread
C16_Witness ==
    \E m, n \in 1..Len(tasks) :
        /\ m # n
        /\ tasks[m].state = "running"
        /\ tasks[n].state = "running"
        /\ tasks[m].thread # tasks[n].thread

(***************************************************************************)
(* The claim about the fragments that leave no layer.                      *)
(***************************************************************************)
\* the layer assigner deals with the fragment at bp_j in this step
FragmentStep == pc = "assign" /\ cur # NoOverlap /\ bp_j' = bp_j + 2

\* C17: a fragment whose mean quality is below quality_threshold adds no
\* layer to any window and sets prev_window_id to the window id that the
\* fragment would have been assigned had it passed the quality test; a
\* fragment discarded as too short adds no layer and leaves prev_window_id
\* as it was.
C17_SkippedFragments ==
    [][FragmentStep =>
          /\ lastFragment'.kind = "low quality"
                => /\ windows_' = windows_
                   /\ lastCall' = lastCall
                   /\ prev_window_id' =
                         LayerWindowId(cur.breaking_points, bp_j,
                                       first_window_id(windows_, cur.t_id), window_length_,
                                       Offset(window_length_, overlap_percentage_),
                                       prev_window_id)
          /\ lastFragment'.kind = "too short"
                => /\ windows_' = windows_
                   /\ lastCall' = lastCall
                   /\ prev_window_id' = prev_window_id
          /\ lastFragment'.kind \in {"low quality", "too short", "layer"}]_vars

\* C17 witness: a fragment was skipped for its quality, and prev_window_id
\* was set to the window after the one the fragment starts in
C17_Witness ==
    /\ pc = "assign"
    /\ cur # NoOverlap
    /\ lastFragment.kind = "low quality"
    /\ prev_window_id =
          first_window_id(windows_, cur.t_id)
             + cur.breaking_points[lastFragment.j + 1][1] \div window_length_ + 1

(***************************************************************************)
(* The claim about the match positions of a stitching.                     *)
(***************************************************************************)
\* the columns (from 0) at which the two rows of the alignment are equal
EqualColumns(msa) == { j \in 0 .. (Len(msa[1]) - 1) : msa[1][j + 1] = msa[2][j + 1] }

\* C18: for the alignment of every stitching, first_match_pos is the smallest
\* column with equal rows and last_match_pos the largest, and the unmerged
\* fallback is taken if and only if no column has equal rows.
C18_MatchPositions ==
    lastStitch.made
        => LET eq       == EqualColumns(lastStitch.msa)
               fallback == \/ lastStitch.first_match_pos = NoMatch
                           \/ lastStitch.last_match_pos = NoMatch
           IN  /\ fallback <=> eq = {}
               /\ eq # {}
                     => /\ lastStitch.first_match_pos \in eq
                        /\ lastStitch.last_match_pos \in eq
                        /\ \A j \in eq : /\ lastStitch.first_match_pos <= j
                                          /\ j <= lastStitch.last_match_pos

(***************************************************************************)
(* The claim about the ids of the loaded sequences.                        *)
(***************************************************************************)
\* the sequences the store holds
Stored == { sequences_[n] : n \in 1..Len(sequences_) }

\* the query delivered at raw index k - 1 has the name of a target
NamedAsTarget(k) ==
    \E id \in 0 .. (Len(targets) - 1) : TargetOf(id).name = queries[k].name

\* the ids that the name and the raw index of the query at k - 1 map to
IdOfName(k) == name_to_id[<<queries[k].name, "q">>]

IdOfRaw(k) == id_to_id[2 * (k - 1)]

\* the targets have the ids 0 .. T - 1
TargetsKeepIds ==
    \A id \in 0 .. (Len(targets) - 1) :
        /\ id < Len(sequences_)
        /\ TargetOf(id).file = "t"
        /\ TargetOf(id).raw = id

\* the query at k - 1 is gone from the store and its name and raw index map
\* to a target of its name
Elided(k) ==
    /\ queries[k] \notin Stored
    /\ IdOfName(k) = IdOfRaw(k)
    /\ IdOfRaw(k) < Len(targets)
    /\ TargetOf(IdOfRaw(k)).name = queries[k].name

\* the loading has taken the delivered queries in and has not failed
QueriesLoaded == pc \in {"load", "parse", "normalized"}

\* C19: after the loading, for every chunking of the query input, the
\* targets keep the ids 0 .. T - 1; a query named as a target is removed and
\* its name and raw index map to that target's id; the name and the raw
\* index of every other query map to an id below the store size at which
\* the store holds that very query; a query named as a target with a data or
\* quality length unequal to the target's makes initialize fail.
C19_QueryIds ==
    /\ QueriesLoaded
          => /\ TargetsKeepIds
             /\ \A k \in 1..Len(queries) :
                   /\ <<queries[k].name, "q">> \in DOMAIN name_to_id
                   /\ 2 * (k - 1) \in DOMAIN id_to_id
                   /\ IF NamedAsTarget(k) THEN Elided(k)
                      ELSE /\ IdOfRaw(k) < Len(sequences_)
                           /\ sequences_[IdOfRaw(k) + 1] = queries[k]
                           /\ IdOfName(k) < Len(sequences_)
                           /\ sequences_[IdOfName(k) + 1] = queries[k]
    /\ (targets # <<>> /\ DuplicateUnequal)
          => pc = "exit" /\ diagnostic = "duplicate sequence with unequal data"

\* C19, amended: as above, but the name of a query that is not named as a
\* target maps to the id of the last delivered query of that name, which is
\* that very query only when no later query has its name.
C19_QueryIdsLastOfName ==
    /\ QueriesLoaded
          => /\ TargetsKeepIds
             /\ \A k \in 1..Len(queries) :
                   /\ <<queries[k].name, "q">> \in DOMAIN name_to_id
                   /\ 2 * (k - 1) \in DOMAIN id_to_id
                   /\ IF NamedAsTarget(k) THEN Elided(k)
                      ELSE /\ IdOfRaw(k) < Len(sequences_)
                           /\ sequences_[IdOfRaw(k) + 1] = queries[k]
                           /\ IdOfName(k) < Len(sequences_)
                           /\ \E k2 \in k..Len(queries) :
                                 /\ queries[k2].name = queries[k].name
                                 /\ \A k3 \in (k2 + 1) .. Len(queries) :
                                       queries[k3].name # queries[k].name
                                 /\ sequences_[IdOfName(k) + 1] = queries[k2]
    /\ (targets # <<>> /\ DuplicateUnequal)
          => pc = "exit" /\ diagnostic = "duplicate sequence with unequal data"

\* C19 witness: two targets are loaded; the first query has the name of the
\* second target and was elided, the second query has no target's name and
\* is stored right behind the targets
C19_Witness ==
    /\ pc = "parse"
    /\ Len(targets) = 2
    /\ Len(queries) = 2
    /\ queries[1].name = TargetOf(1).name
    /\ IdOfRaw(1) = 1
    /\ ~NamedAsTarget(2)
    /\ IdOfRaw(2) = 2
    /\ sequences_[3] = queries[2]

(***************************************************************************)
(* The claim about the strings requested from the sequences.               *)
(***************************************************************************)
\* has_data[id] and has_reverse_data[id] as Sequence::transmute is handed
\* them: has_data starts true for the targets and false for the queries,
\* has_reverse_data starts false for all, and the overlaps set them
HasData(id) == id < Len(targets) \/ id \in has_data

HasReverseData(id) == id \in has_reverse_data

\* C20: when the materialization of the sequences is submitted, for every
\* overlap of the surviving list has_data[q_id] is true if strand is false
\* and has_reverse_data[q_id] is true if strand is true, for every chunking
\* of the overlap input.
C20_BorrowedStringsRequested ==
    pc = "normalized"
        => \A n \in 1..Len(overlaps) :
               /\ overlaps[n] # Null
               /\ IF overlaps[n].strand
                  THEN HasReverseData(overlaps[n].q)
                  ELSE HasData(overlaps[n].q)

(***************************************************************************)
(* The claim about the window a deposited fragment goes to.                *)
(***************************************************************************)
\* the target of the overlap that the last add_layer call belongs to
LastTarget == assigned[Len(assigned)]

\* C21: for every surviving overlap and every fragment of it that is
\* deposited, the window_id that indexes windows_ after the adjustments lies
\* in [first window of t_id, first window of t_id + 1): the layer goes to no
\* window of another target and the index is never below 0 or past the end
\* of windows_.
C21_WindowOfOwnTarget ==
    lastCall.made
        => /\ first_window_id(windows_, LastTarget) <= lastCall.window_id
           /\ lastCall.window_id < first_window_id(windows_, LastTarget + 1)
           /\ lastCall.window_id < Len(windows_)
           /\ pc # "undefined"

\* C21 witness: the first of two targets has several windows; a fragment
\* that starts in the window before the last one and reaches past the next
\* multiple of window_length_ was deposited to the last window of its
\* target, one below the first window of the other target
C21_Witness ==
    /\ pc = "assign"
    /\ cur # NoOverlap
    /\ Len(targets) = 2
    /\ LastTarget = 0
    /\ lastCall.made
    /\ lastFragment.kind = "layer"
    /\ lastCall.window_id =
          cur.breaking_points[lastFragment.j + 1][1] \div window_length_ + 1
    /\ lastCall.window_id + 1 = first_window_id(windows_, 1)
    /\ lastCall.window_id > 0

(***************************************************************************)
(* The claim about the positions at which the summaries are consulted.     *)
(***************************************************************************)
\* the number of non-gap characters of the row in the columns before j
NonGapBefore(row, j) == Cardinality({ k \in 1..j : row[k] # "-" })

\* start_L of the latest stitching
StartL ==
    LET n == Len(lastStitch.consensus_l)
    IN  (n - (TimesOverlap(n, total_overlap(overlap_percentage_)) % U32)) % U32

\* C22: in the loop over the columns first_match .. last_match, whenever the
\* summaries are consulted at column j, l_pos is start_L plus the number of
\* non-gap characters of row 0 before j and r_pos is the number of non-gap
\* characters of row 1 before j, with l_pos < |L| and r_pos < |R|, also for
\* the columns after a column in which both rows held different bases.
C22_SummaryPositions ==
    lastStitch.made
        => \A n \in 1..Len(lastStitch.reads) :
              LET j     == lastStitch.reads[n][1]
                  l_pos == lastStitch.reads[n][2]
                  r_pos == lastStitch.reads[n][3]
              IN  /\ l_pos = StartL + NonGapBefore(lastStitch.msa[1], j)
                  /\ r_pos = NonGapBefore(lastStitch.msa[2], j)
                  /\ l_pos < Len(lastStitch.consensus_l)
                  /\ r_pos < Len(lastStitch.consensus_r)

(***************************************************************************)
(* The claim about the release of the windows.                             *)
(***************************************************************************)
\* the windows (indexes from 1) that the iteration i = wi of the loop of
\* polish dereferences: windows_[i], windows_[i + 1] for its rank, and in
\* overlap mode windows_[i - 1] when windows_[i] is not of rank 0
CallerReads ==
    {wi + 1}
        \cup (IF wi + 1 < Len(windows_) THEN {wi + 2} ELSE {})
        \cup (IF overlap_percentage_[1] # 0 /\ windows_[wi + 1].rank # 0
              THEN {wi} ELSE {})

\* the windows that the iteration i = wi resets
CallerResets ==
    IF overlap_percentage_[1] = 0 THEN {wi + 1}
    ELSE (IF windows_[wi + 1].rank # 0 THEN {wi} ELSE {})
            \cup (IF IsFinalWindow(windows_, wi) THEN {wi + 1} ELSE {})

\* the windows that a step releases
Released ==
    { n \in 1..Len(windows_) :
         windows_[n].live /\ (n > Len(windows_') \/ ~windows_'[n].live) }

\* an iteration of the loop of polish
CallerIteration == pc = "polish" /\ wi < Len(windows_) /\ wi' = wi + 1

\* the window of a task that has not returned is not released
TaskWindowsLive ==
    pc = "polish"
        => \A n \in 1..Len(tasks) :
              tasks[n].state \in {"queued", "running"} => windows_[n].live

\* the windows of the targets before the one being processed are released,
\* and so are all windows once the loop is over
ReleasedByItsSuccessor ==
    pc = "polish"
        => \A n \in 1..Len(windows_) :
              (\/ wi >= Len(windows_)
               \/ windows_[n].id < windows_[Min(wi, Len(windows_) - 1) + 1].id)
                  => ~windows_[n].live

\* C23: during polish, in both modes and for every mix of single-window and
\* multi-window targets, no window is dereferenced after its release, every
\* window is released exactly once by the time the successor of its target
\* is processed, and when polish returns the window list and the sequence
\* store are empty.
C23_WindowsReleasedOnce ==
    /\ [][CallerIteration
            => /\ \A n \in CallerReads : windows_[n].live
               /\ pc' # "undefined"
               /\ Len(windows_') = Len(windows_)
               /\ Released = CallerResets]_vars
    /\ [][(pc = "polish" /\ ~CallerIteration /\ pc' = "polish") => Released = {}]_vars
    /\ [](/\ TaskWindowsLive
          /\ ReleasedByItsSuccessor
          /\ pc = "done" => (windows_ = <<>> /\ sequences_ = <<>>))

\* C23 witness: overlap mode, a target of one window followed by a target of
\* two; the loop is at the second window of the second target, the window of
\* the first target is released and the two of the second are not
C23_Witness ==
    /\ pc = "polish"
    /\ overlap_percentage_[1] # 0
    /\ Len(windows_) = 3
    /\ wi = 2
    /\ windows_[1].id = 0
    /\ windows_[2].id = 1
    /\ windows_[3].id = 1
    /\ ~windows_[1].live
    /\ windows_[2].live
    /\ windows_[3].live

(***************************************************************************)
(* shrinkToFit called on its own, on every vector of up to MaxVectorLen    *)
(* pointers and every begin up to its size.                                *)
(***************************************************************************)
\* the vectors of n pointers: the element at index k - 1 is null or points
\* to an object of its own
RECURSIVE Vectors(_)
Vectors(n) ==
    IF n = 0 THEN { <<>> }
    ELSE { Append(v, e) : v \in Vectors(n - 1), e \in {Null, Survivor(n, 0, 1)} }

InitShrink ==
    /\ pc = "shrink"
    /\ type_ = "kC"
    /\ overlaps = <<>>
    /\ l = 0
    /\ parsed = <<>>
    /\ has_data = {}
    /\ has_reverse_data = {}
    /\ \E src \in UNION { Vectors(n) : n \in 0..MaxVectorLen } :
       \E begin \in 0..Len(src) :
          lastShrink = [NoShrink EXCEPT !.src = src, !.begin = begin]
    /\ IdleAssign
    /\ Loaded
    /\ SingleThread

\* uint64_t n = shrinkToFit(src, begin)
ShrinkToFitCall ==
    /\ pc = "shrink"
    /\ pc' = "shrunk"
    /\ LET r == shrinkToFit(lastShrink.src, lastShrink.begin)
       IN  lastShrink' = [lastShrink EXCEPT !.made = TRUE, !.dst = r.src, !.n = r.n]
    /\ UNCHANGED <<type_, overlaps, l, parsed, has_data, has_reverse_data, cfgVars,
                   loadVars, diagnostic, poolVars, assignVars, polishVars>>

NextShrink == ShrinkToFitCall

SpecShrink == InitShrink /\ [][NextShrink]_vars

\* the element is not null
NotNull(e) == e # Null

\* C24: for every vector src and every begin <= src.size(), shrinkToFit
\* leaves the elements at the indexes < begin as they were and after them
\* exactly the non-null elements that were at the indexes >= begin, in
\* their order and with no null among them, and returns the number of null
\* elements that were at the indexes >= begin (old size minus new size).
C24_ShrinkToFit ==
    lastShrink.made
        => LET src   == lastShrink.src
               begin == lastShrink.begin
               left  == lastShrink.dst
               tail  == SubSeq(src, begin + 1, Len(src))
           IN  /\ left = SubSeq(src, 1, begin) \o SelectSeq(tail, NotNull)
               /\ \A k \in (begin + 1) .. Len(left) : left[k] # Null
               /\ lastShrink.n = Cardinality({ k \in 1..Len(tail) : tail[k] = Null })
               /\ lastShrink.n = Len(src) - Len(left)

\* C24 witness: begin is 1 and the element before it is null; of the four
\* elements from begin on the first and the third are null, and the call
\* has left the null in front and the two others behind it
C24_Witness ==
    /\ lastShrink.made
    /\ lastShrink.begin = 1
    /\ Len(lastShrink.src) = 5
    /\ lastShrink.src[1] = Null
    /\ lastShrink.src[2] = Null
    /\ lastShrink.src[3] # Null
    /\ lastShrink.src[4] = Null
    /\ lastShrink.src[5] # Null
    /\ lastShrink.dst = <<Null, lastShrink.src[3], lastShrink.src[5]>>
    /\ lastShrink.n = 2
====
